---- MODULE Spec2Model ----
(***************************************************************************)
(* A model of the "simple" concatenative JIT interpreter (kernel.c, the    *)
(* x86-64 emitter and the host/guest trampoline of x64.h).                 *)
(*                                                                         *)
(* Bytes are one-character strings; C strings and streams are sequences    *)
(* of bytes.  Machine words are integers wrapped to WordBits bits.         *)
(* Addresses are small integers laid out by the *Base / *Cell definitions. *)
(***************************************************************************)
EXTENDS Integers, Sequences, FiniteSets, TLC

(***************************************************************************)
(* Bounds of the model                                                     *)
(***************************************************************************)
\* width of the machine word (the program's is 64)
WordBits == 16
\* largest operand literal of the generated arithmetic programs
MaxLit == 3
\* pages of the program area (the program's PROGRAM_AREA_SIZE is 128 pages)
ProgramPages == 1

(***************************************************************************)
(* Machine words                                                           *)
(***************************************************************************)
RECURSIVE Pow2(_)
Pow2(n) == IF n = 0 THEN 1 ELSE 2 * Pow2(n - 1)

WordMod == Pow2(WordBits)
MaxWord == Pow2(WordBits - 1) - 1
MinWord == 0 - Pow2(WordBits - 1)

\* two's complement wrap-around of signed long arithmetic
Wrap(x) == ((x + Pow2(WordBits - 1)) % WordMod) - Pow2(WordBits - 1)

(***************************************************************************)
(* Bytes                                                                   *)
(***************************************************************************)
\* the printable ASCII characters, Ascii[i] has code i + 31 (code 96, the
\* backquote, is written <bq>)
Ascii ==
  << " ", "!", "\"", "#", "$", "%", "&", "'", "(", ")", "*", "+", ",", "-",
     ".", "/", "0", "1", "2", "3", "4", "5", "6", "7", "8", "9", ":", ";",
     "<", "=", ">", "?", "@", "A", "B", "C", "D", "E", "F", "G", "H", "I",
     "J", "K", "L", "M", "N", "O", "P", "Q", "R", "S", "T", "U", "V", "W",
     "X", "Y", "Z", "[", "\\", "]", "^", "_", "<bq>", "a", "b", "c", "d", "e",
     "f", "g", "h", "i", "j", "k", "l", "m", "n", "o", "p", "q", "r", "s",
     "t", "u", "v", "w", "x", "y", "z", "{", "|", "}", "~" >>

Newline == "\n"
Tab == "\t"
CarriageReturn == "\r"

Bytes == {Ascii[i] : i \in 1..Len(Ascii)} \cup {Newline, Tab, CarriageReturn}

Ord(c) == IF c = Newline THEN 10
          ELSE IF c = Tab THEN 9
          ELSE IF c = CarriageReturn THEN 13
          ELSE 31 + (CHOOSE i \in 1..Len(Ascii) : Ascii[i] = c)

Chr(n) == IF n = 10 THEN Newline
          ELSE IF n = 9 THEN Tab
          ELSE IF n = 13 THEN CarriageReturn
          ELSE Ascii[n - 31]

\* toupper() in the C locale
ToUpper(c) == IF Ord(c) >= 97 /\ Ord(c) <= 122 THEN Chr(Ord(c) - 32) ELSE c

IsUpperLetter(c) == Ord(c) >= 65 /\ Ord(c) <= 90
IsLowerLetter(c) == Ord(c) >= 97 /\ Ord(c) <= 122
IsDigit(c) == Ord(c) >= 48 /\ Ord(c) <= 57

(***************************************************************************)
(* Readtable                                                               *)
(***************************************************************************)
ConstituentPunct ==
  {"_", "!", "@", "#", "$", "%", "^", "&", "*", ":", ",", ".", "<", ">",
   "=", "/", "?", ";"}

\* char_properties of default_readtable
DefaultProps(c) ==
  IF IsLowerLetter(c) \/ IsUpperLetter(c) \/ c \in ConstituentPunct
    THEN {"constituent"}
  ELSE IF c \in {"-", "+"} THEN {"number_init", "constituent"}
  ELSE IF IsDigit(c) THEN {"number_init", "number", "constituent"}
  ELSE IF c \in {"\"", "[", "("} THEN {"macro"}
  ELSE IF c \in {"]", ")"} THEN {"error"}
  ELSE IF c \in {" ", Newline, Tab, CarriageReturn} THEN {"whitespace"}
  ELSE {}

\* macro_dispatch of default_readtable; "null" is the NULL slot
DefaultDispatch(c) ==
  IF c = "\"" THEN "read_string"
  ELSE IF c = "[" THEN "read_quote"
  ELSE IF c = "(" THEN "read_list"
  ELSE IF c \in {"]", ")"} THEN "read_error"
  ELSE "null"

default_readtable ==
  [ char_properties |-> [c \in Bytes |-> DefaultProps(c)],
    macro_dispatch  |-> [c \in Bytes |-> DefaultDispatch(c)] ]

(***************************************************************************)
(* Vector: a growable byte array.  realloc leaves the bytes from fill on   *)
(* uninitialised, and nothing ever writes a terminating NUL.               *)
(***************************************************************************)
vector_new == [data |-> <<>>, size |-> 0]

vector_length(vec) == Len(vec.data)

\* VECTOR_APPEND(vec, char, b)
vector_append(vec, b) ==
  LET newfill == Len(vec.data) + 1 IN
  [ data |-> Append(vec.data, b),
    size |-> IF newfill > vec.size THEN newfill * 2 ELSE vec.size ]

\* The C string a reader of vector_data(vec) sees: the appended bytes, then
\* whatever the memory after them holds up to its first zero byte (tail).
CString(vec, tail) == vec.data \o tail

(***************************************************************************)
(* Reader.  A stream is the sequence of bytes not yet consumed: fgetc      *)
(* takes its head, ungetc puts a byte back in front.                       *)
(***************************************************************************)
RECURSIVE SymbolLoopDropping(_, _, _)
\* the loop of read_symbol without the ungetc
SymbolLoopDropping(rt, symrepr, rest) ==
  IF rest = <<>> THEN <<symrepr, rest>>
  ELSE LET character == ToUpper(Head(rest)) IN
       IF "constituent" \notin rt.char_properties[character]
         THEN <<symrepr, Tail(rest)>>
         ELSE SymbolLoopDropping(rt, vector_append(symrepr, character), Tail(rest))

RECURSIVE SymbolLoop(_, _, _)
\* the while loop of read_symbol: <<vector, stream left>>
SymbolLoop(rt, symrepr, rest) ==
  IF rest = <<>> THEN <<symrepr, rest>>
  ELSE LET character == ToUpper(Head(rest)) IN
       IF "constituent" \notin rt.char_properties[character]
         THEN <<symrepr, <<character>> \o Tail(rest)>>
         ELSE SymbolLoop(rt, vector_append(symrepr, character), Tail(rest))

read_symbol(rt, character, rest, tail) ==
  LET r == SymbolLoop(rt, vector_append(vector_new, character), rest) IN
  [ k |-> "obj",
    obj |-> [type |-> "symbol", repr |-> CString(r[1], tail)],
    rest |-> r[2] ]

RECURSIVE NumberLoop(_, _, _)
\* the while loop of read_number: <<vector, stream left>>
NumberLoop(rt, repr, rest) ==
  IF rest = <<>> THEN <<repr, rest>>
  ELSE LET character == Head(rest) IN
       IF "number" \notin rt.char_properties[character]
         THEN <<repr, rest>>
         ELSE NumberLoop(rt, vector_append(repr, character), Tail(rest))

RECURSIVE DecimalLoop(_, _, _, _)
\* the for loop of read_number, i running from vector_length down to 1
DecimalLoop(repr, i, value, factor) ==
  IF i = 0 THEN value
  ELSE DecimalLoop(repr, i - 1,
                   Wrap(value + (Ord(repr.data[i]) - Ord("0")) * factor),
                   Wrap(factor * 10))

\* read_number without the negation of a literal that starts with -
read_number_unsigned(rt, character, rest) ==
  LET first  == IF character \in {"-", "+"} THEN vector_new
                ELSE vector_append(vector_new, character)
      r      == NumberLoop(rt, first, rest)
  IN [ k |-> "obj",
       obj |-> [type |-> "number",
                value |-> DecimalLoop(r[1], vector_length(r[1]), 0, 1)],
       rest |-> r[2] ]

read_number(rt, character, rest) ==
  LET negate == (character = "-")
      first  == IF character \in {"-", "+"} THEN vector_new
                ELSE vector_append(vector_new, character)
      r      == NumberLoop(rt, first, rest)
      value  == DecimalLoop(r[1], vector_length(r[1]), 0, 1)
  IN [ k |-> "obj",
       obj |-> [type |-> "number",
                value |-> IF negate THEN Wrap(0 - value) ELSE value],
       rest |-> r[2] ]

RECURSIVE StringLoop(_, _)
\* the while loop of read_string: <<vector, stream left, closed>>
StringLoop(str, rest) ==
  IF rest = <<>> THEN <<str, rest, FALSE>>
  ELSE IF Head(rest) = "\"" THEN <<str, Tail(rest), TRUE>>
  ELSE StringLoop(vector_append(str, Head(rest)), Tail(rest))

ReadFatal(kind, arg, rest) ==
  [k |-> "fatal", kind |-> kind, arg |-> arg, rest |-> rest]

\* contents is the vector itself: vector_data is NULL when nothing was
\* appended, else a pointer to the unterminated bytes
read_string(rest, tail) ==
  LET r == StringLoop(vector_new, rest) IN
  IF ~r[3] THEN ReadFatal("eof_in_string", <<>>, r[2])
  ELSE [ k |-> "obj",
         obj |-> [type |-> "string", vec |-> r[1], tail |-> tail],
         rest |-> r[2] ]

\* the handler a macro character dispatches to
ReadHandler(handler, rt, character, rest, tail) ==
  IF handler = "read_string" THEN read_string(rest, tail)
  ELSE IF handler = "read_symbol" THEN read_symbol(rt, character, rest, tail)
  ELSE IF handler = "read_number" THEN read_number(rt, character, rest)
  ELSE ReadFatal("not_implemented", handler, rest)

\* the classifier byte read hands to the handler along with the stream
WithFirst(r, character) ==
  IF r.k = "obj"
    THEN [k |-> "obj", obj |-> r.obj, rest |-> r.rest, first |-> character]
    ELSE r

RECURSIVE read_constituent_first(_, _, _)
\* read testing the constituent property before number_init
read_constituent_first(rt, rest, tail) ==
  IF rest = <<>> THEN [k |-> "none", rest |-> rest]
  ELSE
    LET character == ToUpper(Head(rest))
        cprop     == rt.char_properties[character]
        after     == Tail(rest)
    IN
    IF "error" \in cprop
      THEN ReadFatal("illegal_character", character, after)
    ELSE IF "whitespace" \in cprop THEN read_constituent_first(rt, after, tail)
    ELSE IF "macro" \in cprop
      THEN IF rt.macro_dispatch[character] = "null"
             THEN ReadFatal("macro_no_handler", character, after)
             ELSE WithFirst(ReadHandler(rt.macro_dispatch[character], rt,
                                        character, after, tail), character)
    ELSE IF "constituent" \in cprop
      THEN WithFirst(read_symbol(rt, character, after, tail), character)
    ELSE IF "number_init" \in cprop
      THEN WithFirst(read_number(rt, character, after), character)
    ELSE IF "number" \in cprop
      THEN ReadFatal("number_continuation", character, after)
    ELSE ReadFatal("no_properties", character, after)

RECURSIVE read_skipping_null_macro(_, _, _)
\* read going on to the next byte when a macro byte has no handler
read_skipping_null_macro(rt, rest, tail) ==
  IF rest = <<>> THEN [k |-> "none", rest |-> rest]
  ELSE
    LET character == ToUpper(Head(rest))
        cprop     == rt.char_properties[character]
        after     == Tail(rest)
    IN
    IF "error" \in cprop
      THEN ReadFatal("illegal_character", character, after)
    ELSE IF "whitespace" \in cprop THEN read_skipping_null_macro(rt, after, tail)
    ELSE IF "macro" \in cprop
      THEN IF rt.macro_dispatch[character] = "null"
             THEN read_skipping_null_macro(rt, after, tail)
             ELSE WithFirst(ReadHandler(rt.macro_dispatch[character], rt,
                                        character, after, tail), character)
    ELSE IF "number_init" \in cprop
      THEN WithFirst(read_number(rt, character, after), character)
    ELSE IF "constituent" \in cprop
      THEN WithFirst(read_symbol(rt, character, after, tail), character)
    ELSE IF "number" \in cprop
      THEN ReadFatal("number_continuation", character, after)
    ELSE ReadFatal("no_properties", character, after)

RECURSIVE read(_, _, _)
\* read: [k |-> "none"] at end of file, [k |-> "obj"] with the read-object,
\* or [k |-> "fatal"] with the error() it ends in
read(rt, rest, tail) ==
  IF rest = <<>> THEN [k |-> "none", rest |-> rest]
  ELSE
    LET character == ToUpper(Head(rest))
        cprop     == rt.char_properties[character]
        after     == Tail(rest)
    IN
    IF "error" \in cprop
      THEN ReadFatal("illegal_character", character, after)
    ELSE IF "whitespace" \in cprop THEN read(rt, after, tail)
    ELSE IF "macro" \in cprop
      THEN IF rt.macro_dispatch[character] = "null"
             THEN ReadFatal("macro_no_handler", character, after)
             ELSE WithFirst(ReadHandler(rt.macro_dispatch[character], rt,
                                        character, after, tail), character)
    ELSE IF "number_init" \in cprop
      THEN WithFirst(read_number(rt, character, after), character)
    ELSE IF "constituent" \in cprop
      THEN WithFirst(read_symbol(rt, character, after, tail), character)
    ELSE IF "number" \in cprop
      THEN ReadFatal("number_continuation", character, after)
    ELSE ReadFatal("no_properties", character, after)

(***************************************************************************)
(* Symbol table: entries newest first                                      *)
(***************************************************************************)
SYMTAB_EMPTY == <<>>

symtab_name_equals(entry, symbol_name) == entry.symbol_name = symbol_name

\* the NULL that slist_find returns when nothing matches
NullEntry == [symbol_name |-> <<>>, symbol_value |-> 0, symbol_type |-> "null"]

RECURSIVE slist_find(_, _)
\* the first entry from the head whose name matches, or NULL
slist_find(list, symbol_name) ==
  IF list = <<>> THEN NullEntry
  ELSE IF symtab_name_equals(Head(list), symbol_name) THEN Head(list)
  ELSE slist_find(Tail(list), symbol_name)

symtab_lookup_symbol(tab, symbol_name) == slist_find(tab, symbol_name)

\* symtab_add_symbol linking the new entry behind the last one
symtab_add_symbol_tail(tab, symbol_name, symbol_value, symtype) ==
  Append(tab, [symbol_name |-> symbol_name, symbol_value |-> symbol_value,
               symbol_type |-> symtype])

\* the new head of the list (what ADD_SYM stores back in the table handle)
symtab_add_symbol(tab, symbol_name, symbol_value, symtype) ==
  << [symbol_name |-> symbol_name, symbol_value |-> symbol_value,
      symbol_type |-> symtype] >> \o tab


(***************************************************************************)
(* Address space.  Every pointer the program hands to guest code is an     *)
(* integer; the regions are disjoint and lie below 2^(WordBits-1).         *)
(***************************************************************************)
NULL == 0
\* the calloc'ed cells behind *SYMTAB*, *READTAB*, *IN*, *OUT*, *PROGRAM*
SymtabCell == 8
ReadtabCell == 16
InCell == 24
OutCell == 32
ProgramCell == 40
\* the FILE the input cell points to while a file is open
StreamPtr == 48
\* host functions (the GUESTFUNCs main registers), 16 bytes apart
HostBase == 256
HostFns ==
  << "read", "eval", "swap", "dup", "mult", "add", "write_ptr", "read_ptr",
     "print_int", "print_string", "defun", "defmacro", "defval",
     "allocatemem" >>
HostAddr(f) == HostBase + 16 * (CHOOSE i \in 1..Len(HostFns) : HostFns[i] = f)
IsHost(a) == \E i \in 1..Len(HostFns) : a = HostBase + 16 * i
HostName(a) == HostFns[(a - HostBase) \div 16]
\* the program area: a calloc'ed block of PROGRAM_AREA_SIZE + PAGE_SIZE bytes
\* at BlockPtr, the area starting at the next page boundary inside it
PAGE_SIZE == 4096
PROGRAM_AREA_SIZE == PAGE_SIZE * ProgramPages
BlockPtr == 2064
BlockEnd == BlockPtr + PROGRAM_AREA_SIZE + PAGE_SIZE
\* the block pointer moved on by two pages before it is rounded down
program_area_far(ptr) ==
  (ptr + 2 * PAGE_SIZE) - ((ptr + 2 * PAGE_SIZE) % PAGE_SIZE)
\* (ptr + PAGE_SIZE) & ~4095: the low bits of the sum cleared
program_area_base(ptr) == (ptr + PAGE_SIZE) - ((ptr + PAGE_SIZE) % PAGE_SIZE)
ProgramBase == program_area_base(BlockPtr)
ProgramEnd == ProgramBase + PROGRAM_AREA_SIZE
\* heap objects (read-objects, string bytes, ALLOC blocks), 16 bytes apart
HeapBase == 16384
HeapAddr(i) == HeapBase + 16 * i
\* the parameter stack
PTRSIZE == 8
StackBase == 20480
StackSlots == 1000
StackEnd == StackBase + PTRSIZE * StackSlots
\* *top after stack_new: base + size - 1 slots, rounded down to 16 bytes
StackTop == ((StackBase + PTRSIZE * (StackSlots - 1)) \div 16) * 16

(***************************************************************************)
(* Emitter: an instruction is [op, form, len, arg]; form is the encoding of *)
(* a call, len what the cursor advances by, wlen the number of bytes the   *)
(* emitter stores.                                                         *)
(***************************************************************************)
ImmBits == WordBits \div 2
ImmMod == Pow2(ImmBits)
\* 0x7fffffe0 and 0xffffffff, for immediates of ImmBits bits
Rel32Limit == Pow2(ImmBits - 1) - 32
Imm32Max == ImmMod - 1

\* a pointer as intptr_t
Signed(a) == Wrap(a)

intptrabs(x) == IF x < 0 THEN Wrap(0 - x) ELSE x

asm_prologue ==
  [instr |-> [op |-> "prologue", form |-> "none", len |-> 4, arg |-> 0], wlen |-> 4]
asm_epilogue ==
  [instr |-> [op |-> "epilogue", form |-> "none", len |-> 4, arg |-> 0], wlen |-> 4]
asm_ret ==
  [instr |-> [op |-> "ret", form |-> "none", len |-> 1, arg |-> 0], wlen |-> 1]

\* the instruction asm_call stores: its encoding and its immediate
CallInstr(form, len, imm) ==
  [instr |-> [op |-> "call", form |-> form, len |-> len, arg |-> imm], wlen |-> len]

\* asm_call taking the displacement from the start of the instruction
asm_call_from_start(pgm, function) ==
  IF function = NULL THEN CallInstr("abs64", 12, function)
  ELSE IF (intptrabs(Wrap(Signed(function) - Signed(pgm))) % WordMod) < Rel32Limit
    THEN CallInstr("rel32", 5, (function - pgm) % ImmMod)
  ELSE IF function < Imm32Max
    THEN CallInstr("imm32", 7, function % ImmMod)
  ELSE CallInstr("abs64", 12, function)

\* the three encodings of a call: e8 rel32; b9 imm32, ff d1; 48 b9 imm64,
\* ff d1.  The comparison with 0x7fffffe0ULL is unsigned.
asm_call(pgm, function) ==
  IF function = NULL THEN CallInstr("abs64", 12, function)
  ELSE IF (intptrabs(Wrap(Signed(function) - Signed(pgm))) % WordMod) < Rel32Limit
    THEN CallInstr("rel32", 5, (function - ((pgm + 1) + 4)) % ImmMod)
  ELSE IF function < Imm32Max
    THEN CallInstr("imm32", 7, function % ImmMod)
  ELSE CallInstr("abs64", 12, function)

\* a 32-bit immediate sign-extended to a word
SignExtend(imm) == IF imm >= Pow2(ImmBits - 1) THEN imm - ImmMod ELSE imm

\* where the processor continues after the call instruction i stored at
\* address at: relative to the next instruction for e8, the register's
\* value (the zero-extended or full immediate) for ff d1
CallTarget(at, i) ==
  IF i.form = "rel32" THEN ((at + i.len) + SignExtend(i.arg)) % WordMod
  ELSE i.arg

\* subq rdi,8 (4 bytes); movabsq rcx,l (10); movq [rdi],rcx (3), the last
\* stored as a 32-bit word
asm_integer(l) ==
  [instr |-> [op |-> "push", form |-> "none", len |-> 17, arg |-> l], wlen |-> 18]

(***************************************************************************)
(* The machine state as one record m.                                      *)
(*   status   "run", "exit0" (return 0 from main), "exit1" (error()),      *)
(*            "crash" (killed by a signal), "undefined" (a wild pointer    *)
(*            into mapped memory was used; not followed further)           *)
(*   diag     what error() printed                                         *)
(*   out      the lines written to standard output                        *)
(*   symtab   *global_symbol_table                                         *)
(*   mem, sp  parameter stack memory and the stack pointer (rdi)           *)
(*   cursor   *program_area_ptr                                            *)
(*   code     the instructions in memory, by start address                 *)
(*   written  the addresses of the block some store has written            *)
(*   ctl      the native call stack: suspended host loops and guest code   *)
(*   inrest   the bytes of the input file not yet consumed                 *)
(*   heap     the allocated objects                                        *)
(*   readtab  **current_readtable                                          *)
(***************************************************************************)
Top(ctl) == ctl[Len(ctl)]
PopFrame(ctl) == SubSeq(ctl, 1, Len(ctl) - 1)

Store(mem, a, v) == [x \in (DOMAIN mem) \cup {a} |-> IF x = a THEN v ELSE mem[x]]
\* calloc zeroes the stack array
Load(mem, a) == IF a \in DOMAIN mem THEN mem[a] ELSE 0

stack_push(m, value) ==
  [m EXCEPT !.sp = m.sp - PTRSIZE, !.mem = Store(m.mem, m.sp - PTRSIZE, value)]
StackTopValue(m) == Load(m.mem, m.sp)
stack_pop(m) == [m EXCEPT !.sp = m.sp + PTRSIZE]

\* rsp mod 16 on entry to a function called through call_guest_function:
\* and $-16,%rsp; sub $8,%rsp; call (pushes 8 bytes)
TrampolineEntry(rsp) == (((rsp - (rsp % 16)) - 8) - 8) % 16
\* the System V ABI: rsp + 8 is a multiple of 16 on function entry
ABIAligned(entry) == (entry + 8) % 16 = 0

\* error(): vfprintf to stderr, then exit(1).  Entered with a misaligned
\* native stack, the C library call may fault instead (ch.crash).
Fatal(m, entry, kind, arg, ch) ==
  IF ~ABIAligned(entry) /\ ch.crash
    THEN [m EXCEPT !.status = "crash"]
    ELSE [m EXCEPT !.status = "exit1", !.diag = [kind |-> kind, arg |-> arg]]

Crash(m) == [m EXCEPT !.status = "crash"]

Alloc(m, obj) == [m EXCEPT !.heap = Append(m.heap, obj)]
LastAddr(m) == HeapAddr(Len(m.heap))
IsHeapAddr(m, a) ==
  /\ a > HeapBase /\ (a - HeapBase) % 16 = 0
  /\ (a - HeapBase) \div 16 <= Len(m.heap)
Deref(m, a) == m.heap[(a - HeapBase) \div 16]
IsReadObject(m, a) ==
  IsHeapAddr(m, a) /\ Deref(m, a).type \in {"symbol", "number", "string"}

\* the symbol table main builds before the first read
InitialSymtab ==
  LET t0 == SYMTAB_EMPTY
      t1 == symtab_add_symbol(t0, <<"*", "S", "Y", "M", "T", "A", "B", "*">>, SymtabCell, "value")
      t2 == symtab_add_symbol(t1, <<"*", "R", "E", "A", "D", "T", "A", "B", "*">>, ReadtabCell, "value")
      t3 == symtab_add_symbol(t2, <<"*", "I", "N", "*">>, InCell, "value")
      t4 == symtab_add_symbol(t3, <<"*", "O", "U", "T", "*">>, OutCell, "value")
      t5 == symtab_add_symbol(t4, <<"*", "P", "R", "O", "G", "R", "A", "M", "*">>, ProgramCell, "value")
      t6 == symtab_add_symbol(t5, <<"R", "E", "A", "D">>, HostAddr("read"), "function")
      t7 == symtab_add_symbol(t6, <<"E", "V", "A", "L">>, HostAddr("eval"), "function")
      t8 == symtab_add_symbol(t7, <<"S", "W", "A", "P">>, HostAddr("swap"), "function")
      t9 == symtab_add_symbol(t8, <<"D", "U", "P">>, HostAddr("dup"), "function")
      t10 == symtab_add_symbol(t9, <<"*">>, HostAddr("mult"), "function")
      t11 == symtab_add_symbol(t10, <<"+">>, HostAddr("add"), "function")
      t12 == symtab_add_symbol(t11, <<"P", "S", "E", "T">>, HostAddr("write_ptr"), "function")
      t13 == symtab_add_symbol(t12, <<"P", "G", "E", "T">>, HostAddr("read_ptr"), "function")
      t14 == symtab_add_symbol(t13, <<"P", "R", "I", "N", "T", "I">>, HostAddr("print_int"), "function")
      t15 == symtab_add_symbol(t14, <<"P", "R", "I", "N", "T", "S">>, HostAddr("print_string"), "function")
      t16 == symtab_add_symbol(t15, <<"D", "E", "F", "U", "N">>, HostAddr("defun"), "function")
      t17 == symtab_add_symbol(t16, <<"D", "E", "F", "M", "A", "C", "R", "O">>, HostAddr("defmacro"), "function")
      t18 == symtab_add_symbol(t17, <<"D", "E", "F", "V", "A", "L">>, HostAddr("defval"), "function")
      t19 == symtab_add_symbol(t18, <<"P", "T", "R", "S", "I", "Z", "E">>, PTRSIZE, "value")
      t20 == symtab_add_symbol(t19, <<"A", "L", "L", "O", "C">>, HostAddr("allocatemem"), "function")
  IN t20


(***************************************************************************)
(* Memory regions                                                          *)
(***************************************************************************)
InStack(a) == a >= StackBase /\ a < StackEnd /\ a % PTRSIZE = 0
InBlock(a) == a >= BlockPtr /\ a < BlockEnd
Mapped(m, a) ==
  \/ a >= SymtabCell /\ a < StreamPtr + PTRSIZE
  \/ InBlock(a)
  \/ a > HeapBase /\ a < HeapAddr(Len(m.heap) + 1)
  \/ a >= StackBase /\ a < StackEnd

Undefined(m) == [m EXCEPT !.status = "undefined"]
\* a load or store through a pointer the model gives no meaning to
BadPointer(m, a) == IF Mapped(m, a) THEN Undefined(m) ELSE Crash(m)

Overlapping(code, a, n) == {x \in DOMAIN code : x < a + n /\ x + code[x].len > a}

\* Emit moving the cursor back by the instruction's length
EmitRewind(m, e) ==
  IF m.status # "run" THEN m
  ELSE [m EXCEPT !.code = [x \in {m.cursor} |-> e.instr],
                 !.written = m.written \cup {m.cursor},
                 !.cursor = m.cursor - e.instr.len]

\* store e.wlen bytes at the cursor and advance it by e.instr.len
Emit(m, e) ==
  LET a == m.cursor IN
  IF m.status # "run" THEN m
  ELSE IF ~(InBlock(a) /\ InBlock(a + e.wlen - 1)) THEN BadPointer(m, a)
  ELSE [m EXCEPT
          !.code = [x \in ((DOMAIN m.code) \ Overlapping(m.code, a, e.wlen))
                            \cup {a} |->
                      IF x = a THEN e.instr ELSE m.code[x]],
          !.written = m.written \cup (a .. (a + e.wlen - 1)),
          !.cursor = a + e.instr.len]

(***************************************************************************)
(* Frames of the native call stack                                         *)
(***************************************************************************)
Frame(k, type, phase, name, entry, ip, rsp) ==
  [k |-> k, type |-> type, phase |-> phase, name |-> name, entry |-> entry,
   ip |-> ip, rsp |-> rsp]
MainFrame == Frame("main", "none", "loop", <<>>, 0, 0, 0)
DefFrame(type, entry, rsp) == Frame("def", type, "name", <<>>, entry, 0, rsp)
\* entry keeps rsp as it was on entry, which ret needs restored
GuestFrame(ip, rsp) == Frame("guest", "none", "run", <<>>, rsp, ip, rsp)
CompileFrame(rsp) == Frame("compile", "none", "macro", <<>>, 0, 0, rsp)

PushFrame(m, f) == [m EXCEPT !.ctl = Append(m.ctl, f)]

\* compile after its macro returned: stack_push(&stack, ret) with ret NULL
FinishCompile(m) == stack_push([m EXCEPT !.ctl = PopFrame(m.ctl)], NULL)

\* the function of the top frame returns to its caller
ReturnFrom(m) ==
  LET m1 == [m EXCEPT !.ctl = PopFrame(m.ctl)] IN
  IF Top(m1.ctl).k = "compile" THEN FinishCompile(m1) ELSE m1

(***************************************************************************)
(* Intrinsics                                                              *)
(***************************************************************************)
dup(m) == stack_push(m, StackTopValue(m))

swap(m) ==
  LET value0 == Load(m.mem, m.sp)
      value1 == Load(m.mem, m.sp + PTRSIZE)
  IN [m EXCEPT !.mem = Store(Store(m.mem, m.sp + PTRSIZE, value0), m.sp, value1)]

mult(m) ==
  LET a == StackTopValue(m)
      b == StackTopValue(stack_pop(m))
  IN stack_push(stack_pop(stack_pop(m)), Wrap(a * b))

add(m) ==
  LET a == StackTopValue(m)
      b == StackTopValue(stack_pop(m))
  IN stack_push(stack_pop(stack_pop(m)), Wrap(a + b))

print_int(m) ==
  [stack_pop(m) EXCEPT !.out = Append(m.out, [t |-> "int", v |-> StackTopValue(m)])]

\* puts(s): the bytes at s up to the first zero byte
print_string(m) ==
  LET s == StackTopValue(m) IN
  IF IsHeapAddr(m, s) /\ Deref(m, s).type = "chars"
    THEN [stack_pop(m) EXCEPT
            !.out = Append(m.out, [t |-> "str", v |-> Deref(m, s).data])]
    ELSE BadPointer(stack_pop(m), s)

read_ptr(m) ==
  LET ptr == StackTopValue(m)
      m0  == stack_pop(m)
  IN IF ptr = ProgramCell THEN stack_push(m0, m.cursor)
     ELSE IF InStack(ptr) THEN stack_push(m0, Load(m.mem, ptr))
     ELSE BadPointer(m0, ptr)

write_ptr(m) ==
  LET value == StackTopValue(m)
      ptr   == StackTopValue(stack_pop(m))
      m0    == stack_pop(stack_pop(m))
  IN IF ptr = ProgramCell THEN [m0 EXCEPT !.cursor = value]
     ELSE IF InStack(ptr) THEN [m0 EXCEPT !.mem = Store(m.mem, ptr, value)]
     ELSE IF InBlock(ptr) /\ InBlock(ptr + PTRSIZE - 1)
       THEN [m0 EXCEPT
               !.code = [x \in (DOMAIN m.code) \ Overlapping(m.code, ptr, PTRSIZE)
                           |-> m.code[x]],
               !.written = m.written \cup (ptr .. (ptr + PTRSIZE - 1))]
     ELSE BadPointer(m0, ptr)

allocatemem(m) ==
  LET amt == StackTopValue(m)
      m0  == stack_pop(m)
  IN IF amt < 0 THEN stack_push(m0, NULL)
     ELSE LET m1 == Alloc(m0, [type |-> "raw", size |-> amt])
          IN stack_push(m1, LastAddr(m1))

(***************************************************************************)
(* GUESTFUNC(read): pops the stream handle, pushes the read-object or NULL *)
(***************************************************************************)
\* allocate the read-object r.obj; a string's bytes are an object of their
\* own (NULL when nothing was appended to the vector)
AllocReadObject(m, obj) ==
  IF obj.type = "string"
    THEN IF obj.vec.size = 0
           THEN Alloc(m, [type |-> "string", contents |-> NULL])
           ELSE LET m1 == Alloc(m, [type |-> "chars",
                                    data |-> CString(obj.vec, obj.tail)])
                IN Alloc(m1, [type |-> "string", contents |-> LastAddr(m1)])
    ELSE Alloc(m, obj)

\* push the address of the object allocated last
PushLast(m) == stack_push(m, LastAddr(m))

\* read's effect on the machine once the reader has produced r
ReadResult(m0, r, entry, ch) ==
  LET m1 == [m0 EXCEPT !.inrest = r.rest] IN
  IF r.k = "none" THEN stack_push(m1, NULL)
  ELSE IF r.k = "fatal"
    THEN Fatal(m1,
               IF r.kind \in {"eof_in_string", "not_implemented"}
                 THEN TrampolineEntry(entry) ELSE entry,
               r.kind, r.arg, ch)
  ELSE
    \* stream and classifier byte go to the handler on the stack; the
    \* handler pops both and pushes the object
    PushLast(AllocReadObject(
               stack_pop(stack_pop(
                 stack_push(stack_push(m1, StreamPtr), Ord(r.first)))),
               r.obj))

read_fn(m, entry, ch) ==
  IF StackTopValue(m) # InCell THEN BadPointer(stack_pop(m), StackTopValue(m))
  ELSE ReadResult(stack_pop(m), read(m.readtab, m.inrest, ch.tail), entry, ch)

(***************************************************************************)
(* Calls, the evaluator and the compiler                                   *)
(***************************************************************************)
\* control reaches code outside the host binary: the processor faults on
\* the first instruction when the page is not executable
EnterGuest(m, target, entry) ==
  IF m.prot # "rwx" THEN Crash(m)
  ELSE PushFrame(m, GuestFrame(target, entry))

RECURSIVE Call(_, _, _, _)
RECURSIVE eval(_, _, _)

\* control enters the function at target with rsp mod 16 = entry
Call(m, target, entry, ch) ==
  IF m.status # "run" THEN m
  ELSE IF ~IsHost(target) THEN EnterGuest(m, target, entry)
  ELSE
    LET f == HostName(target) IN
    IF f = "read" THEN read_fn(m, entry, ch)
    ELSE IF f = "eval" THEN eval(m, entry, ch)
    ELSE IF f = "swap" THEN swap(m)
    ELSE IF f = "dup" THEN dup(m)
    ELSE IF f = "mult" THEN mult(m)
    ELSE IF f = "add" THEN add(m)
    ELSE IF f = "write_ptr" THEN write_ptr(m)
    ELSE IF f = "read_ptr" THEN read_ptr(m)
    ELSE IF f = "print_int" THEN print_int(m)
    ELSE IF f = "print_string" THEN print_string(m)
    ELSE IF f = "defun" THEN PushFrame(m, DefFrame("function", m.sp, entry))
    ELSE IF f = "defmacro" THEN PushFrame(m, DefFrame("macro", m.sp, entry))
    ELSE IF f = "defval" THEN PushFrame(m, DefFrame("value", m.sp, entry))
    ELSE allocatemem(m)

eval(m, entry, ch) ==
  LET ptr == StackTopValue(m)
      m0  == stack_pop(m)
  IN
  IF ~IsReadObject(m, ptr) THEN BadPointer(m0, ptr)
  ELSE
    LET rdobj == Deref(m, ptr) IN
    IF rdobj.type = "symbol"
      THEN LET obj == symtab_lookup_symbol(m.symtab, rdobj.repr) IN
           IF obj = NullEntry
             THEN Fatal(m0, entry, "undefined_name", rdobj.repr, ch)
           ELSE IF obj.symbol_type \in {"macro", "function"}
             THEN Call(m0, obj.symbol_value, TrampolineEntry(entry), ch)
           ELSE stack_push(m0, obj.symbol_value)
    ELSE IF rdobj.type = "number" THEN stack_push(m0, rdobj.value)
    ELSE stack_push(m0, rdobj.contents)

\* push the address the instruction was emitted at
PushRet(m1, ret) == IF m1.status # "run" THEN m1 ELSE stack_push(m1, ret)

\* compile taking ret after the emission instead of before it
EmitAndPushRetAfter(m, e) == PushRet(Emit(m, e), Emit(m, e).cursor)

\* emit e at the cursor and push the address it was emitted at
EmitAndPushRet(m, e) == PushRet(Emit(m, e), m.cursor)

\* back in compile after the macro it called has returned
AfterMacro(m1) ==
  IF m1.status = "run" /\ Top(m1.ctl).k = "compile"
    THEN FinishCompile(m1) ELSE m1

\* compile emitting a call for a macro as it does for a function
compile_macro_as_function(m, entry, ch) ==
  LET ptr == StackTopValue(m)
      m0  == stack_pop(m)
  IN
  IF ~IsReadObject(m, ptr) THEN BadPointer(m0, ptr)
  ELSE
    LET rdobj == Deref(m, ptr) IN
    IF rdobj.type = "symbol"
      THEN LET obj == symtab_lookup_symbol(m.symtab, rdobj.repr) IN
           IF obj = NullEntry
             THEN Fatal(m0, entry, "undefined_name", rdobj.repr, ch)
           ELSE IF obj.symbol_type \in {"function", "macro"}
             THEN EmitAndPushRet(m0, asm_call(m0.cursor, obj.symbol_value))
           ELSE EmitAndPushRet(m0, asm_integer(obj.symbol_value))
    ELSE IF rdobj.type = "number"
      THEN EmitAndPushRet(m0, asm_integer(rdobj.value))
    ELSE EmitAndPushRet(m0, asm_integer(rdobj.contents))

compile(m, entry, ch) ==
  LET ptr == StackTopValue(m)
      m0  == stack_pop(m)
  IN
  IF ~IsReadObject(m, ptr) THEN BadPointer(m0, ptr)
  ELSE
    LET rdobj == Deref(m, ptr) IN
    IF rdobj.type = "symbol"
      THEN LET obj == symtab_lookup_symbol(m.symtab, rdobj.repr) IN
           IF obj = NullEntry
             THEN Fatal(m0, entry, "undefined_name", rdobj.repr, ch)
           ELSE IF obj.symbol_type = "function"
             THEN EmitAndPushRet(m0, asm_call(m0.cursor, obj.symbol_value))
           ELSE IF obj.symbol_type = "macro"
             THEN AfterMacro(Call(PushFrame(m0, CompileFrame(entry)),
                                  obj.symbol_value, TrampolineEntry(entry), ch))
           ELSE EmitAndPushRet(m0, asm_integer(obj.symbol_value))
    ELSE IF rdobj.type = "number"
      THEN EmitAndPushRet(m0, asm_integer(rdobj.value))
    ELSE EmitAndPushRet(m0, asm_integer(rdobj.contents))


(***************************************************************************)
(* define_thing, split at its calls of read                                *)
(***************************************************************************)
SetTop(m, f) == [m EXCEPT !.ctl = Append(PopFrame(m.ctl), f)]

\* from the call of defun/defmacro/defval up to the emitted prologue
\* the body loop is entered once the prologue is in place
DefineEnter(f, defname, m4) ==
  IF m4.status # "run" THEN m4
  ELSE SetTop(m4, [f EXCEPT !.phase = "body", !.name = defname.repr])

\* functions and macros are registered at the cursor before their body
DefineRegister(f, defname, m2) ==
  IF f.type # "value"
    THEN [m2 EXCEPT !.symtab =
            symtab_add_symbol(m2.symtab, defname.repr, m2.cursor, f.type)]
    ELSE m2

\* the name has been read and popped
DefineNamed(f, m2, defname, ch) ==
  IF defname.type # "symbol"
    THEN Fatal(m2, f.rsp, "bad_def_name", <<>>, ch)
  ELSE DefineEnter(f, defname, Emit(DefineRegister(f, defname, m2), asm_prologue))

\* read has returned in m1 with the name object on the stack
DefineNameRead(f, m1, ch) ==
  IF m1.status # "run" THEN m1
  ELSE IF ~IsReadObject(m1, StackTopValue(m1))
    THEN BadPointer(stack_pop(m1), StackTopValue(m1))
  ELSE DefineNamed(f, stack_pop(m1), Deref(m1, StackTopValue(m1)), ch)

define_name(m, ch) ==
  DefineNameRead(Top(m.ctl),
                 read_fn(stack_push(m, InCell),
                         TrampolineEntry(Top(m.ctl).rsp), ch),
                 ch)

\* defun/defmacro/defval returning with the stack pointer define_thing ended
\* with
DefineReturnKeeping(f, m2) ==
  IF m2.status # "run" THEN m2
  ELSE ReturnFrom(m2)

\* after DONE: register a value, emit epilogue and ret, return to the
\* caller with the stack pointer defun/defmacro/defval was called with
DefineReturn(f, m2) ==
  IF m2.status # "run" THEN m2
  ELSE ReturnFrom([m2 EXCEPT !.sp = f.entry])

\* a value is popped and registered when its body is complete
DefineValue(f, m) ==
  IF f.type = "value"
    THEN [stack_pop(m) EXCEPT !.symtab =
            symtab_add_symbol(m.symtab, f.name, StackTopValue(m), "value")]
    ELSE m

define_done(m) ==
  DefineReturn(Top(m.ctl),
               Emit(Emit(DefineValue(Top(m.ctl), m), asm_epilogue), asm_ret))

T_DONE == <<"D", "O", "N", "E">>

\* one iteration of the body loop
\* read has returned in m1 with a body object on the stack
DefineBodyRead(f, m1, ch) ==
  IF m1.status # "run" THEN m1
  ELSE
    LET ptr == StackTopValue(m1)
        m2  == stack_pop(m1)
    IN
    IF ~IsReadObject(m1, ptr) THEN BadPointer(m2, ptr)
    ELSE
      LET obj == Deref(m1, ptr) IN
      IF obj.type = "symbol" /\ obj.repr = T_DONE THEN define_done(m2)
      ELSE IF f.type = "value"
        THEN eval(stack_push(m2, ptr), TrampolineEntry(f.rsp), ch)
        ELSE compile(stack_push(m2, ptr), TrampolineEntry(f.rsp), ch)

define_body(m, ch) ==
  DefineBodyRead(Top(m.ctl),
                 read_fn(stack_push(m, InCell),
                         TrampolineEntry(Top(m.ctl).rsp), ch),
                 ch)

(***************************************************************************)
(* Guest code: one instruction of the compiled function on top of ctl      *)
(***************************************************************************)
\* guest code whose epilogue is 48 83 c7 08 (add rdi, 8) instead of
\* 48 83 c4 08 (add rsp, 8)
guest_step_epilogue_rdi(m, ch) ==
  LET f == Top(m.ctl) IN
  IF ~(f.ip >= ProgramBase /\ f.ip < ProgramEnd) THEN Crash(m)
  ELSE IF f.ip \notin DOMAIN m.code
    THEN IF f.ip \in m.written THEN Undefined(m) ELSE Crash(m)
  ELSE
    LET i    == m.code[f.ip]
        next == [f EXCEPT !.ip = f.ip + i.len]
    IN
    IF i.op = "prologue" THEN SetTop(m, [next EXCEPT !.rsp = (f.rsp - 8) % 16])
    ELSE IF i.op = "epilogue" THEN stack_pop(SetTop(m, next))
    ELSE IF i.op = "push" THEN stack_push(SetTop(m, next), i.arg)
    ELSE IF i.op = "call"
      THEN Call(SetTop(m, next), CallTarget(f.ip, i), (f.rsp - 8) % 16, ch)
    ELSE ReturnFrom(m)

guest_step(m, ch) ==
  LET f == Top(m.ctl) IN
  IF ~(f.ip >= ProgramBase /\ f.ip < ProgramEnd) THEN Crash(m)
  ELSE IF f.ip \notin DOMAIN m.code
    THEN IF f.ip \in m.written THEN Undefined(m) ELSE Crash(m)
  ELSE
    LET i    == m.code[f.ip]
        next == [f EXCEPT !.ip = f.ip + i.len]
    IN
    IF i.op = "prologue" THEN SetTop(m, [next EXCEPT !.rsp = (f.rsp - 8) % 16])
    ELSE IF i.op = "epilogue" THEN SetTop(m, [next EXCEPT !.rsp = (f.rsp + 8) % 16])
    ELSE IF i.op = "push" THEN stack_push(SetTop(m, next), i.arg)
    ELSE IF i.op = "call"
      THEN Call(SetTop(m, next), CallTarget(f.ip, i), (f.rsp - 8) % 16, ch)
    ELSE IF f.rsp # f.entry THEN Undefined(m)
    ELSE ReturnFrom(m)

(***************************************************************************)
(* main: one iteration of the read-eval loop                               *)
(***************************************************************************)
\* call_guest_function after its call has returned: *stackptr = new_stackptr.
\* The debug binary (-g) keeps stackptr below the native stack pointer, where
\* the call has overwritten it: the store goes through a clobbered pointer.
TrampolineReturn(m) ==
  IF m.status = "run" /\ m.build = "debug" THEN Crash(m) ELSE m

\* the for loop of main starting every file with the table, the code
\* buffer and the stack of a new process
NextFileFresh(m) ==
  IF m.argv = <<>> THEN [m EXCEPT !.status = "exit0"]
  ELSE [m EXCEPT !.inrest = Head(m.argv), !.argv = Tail(m.argv),
                 !.symtab = InitialSymtab, !.cursor = ProgramBase,
                 !.sp = StackTop]

\* the for loop of main after the break: the file is closed, and the next
\* argument is opened or main returns 0
NextFile(m) ==
  IF m.argv = <<>> THEN [m EXCEPT !.status = "exit0"]
  ELSE [m EXCEPT !.inrest = Head(m.argv), !.argv = Tail(m.argv)]

\* the top-level loop without its test for NULL
MainEvalNoBreak(f, m1, ch) ==
  IF m1.status # "run" THEN m1
  ELSE eval(m1, TrampolineEntry(f.rsp), ch)

\* read has returned in m1: stop at NULL, else evaluate the object
MainEval(f, m1, ch) ==
  IF m1.status # "run" THEN m1
  ELSE
    LET obj == StackTopValue(m1)
        m2  == stack_pop(m1)
    IN
    IF obj = NULL THEN NextFile(m2)
    ELSE eval(stack_push(m2, obj), TrampolineEntry(f.rsp), ch)

main_step(m, ch) ==
  MainEval(Top(m.ctl),
           TrampolineReturn(
             read_fn(stack_push(m, InCell), TrampolineEntry(Top(m.ctl).rsp), ch)),
           ch)

(***************************************************************************)
(* Input programs                                                          *)
(***************************************************************************)
RECURSIVE Digits(_)
Digits(n) == IF n < 10 THEN <<Chr(48 + n)>>
             ELSE Append(Digits(n \div 10), Chr(48 + (n % 10)))

\* the decimal literal of n
Lit(n) == IF n < 0 THEN <<"-">> \o Digits(0 - n) ELSE Digits(n)

RECURSIVE Join(_)
\* the tokens separated by single spaces
Join(toks) ==
  IF toks = <<>> THEN <<>>
  ELSE IF Len(toks) = 1 THEN toks[1]
  ELSE toks[1] \o <<" ">> \o Join(Tail(toks))

T_DEFUN == <<"D", "E", "F", "U", "N">>
T_DEFVAL == <<"D", "E", "F", "V", "A", "L">>
T_DEFMACRO == <<"D", "E", "F", "M", "A", "C", "R", "O">>
T_DUP == <<"D", "U", "P">>
T_PRINTI == <<"P", "R", "I", "N", "T", "I">>
T_PRINTS == <<"P", "R", "I", "N", "T", "S">>
T_PSET == <<"P", "S", "E", "T">>
T_PGET == <<"P", "G", "E", "T">>
T_SQUARE == <<"S", "Q", "U", "A", "R", "E">>
T_TEN == <<"T", "E", "N">>
T_NOPE == <<"N", "O", "P", "E">>
T_STAR == <<"*">>
T_PLUS == <<"+">>
T_PROGRAM == <<"*", "P", "R", "O", "G", "R", "A", "M", "*">>
T_HI == <<"\"", "h", "i", "\"">>
T_EMPTYSTR == <<"\"", "\"">>

Lits == 0..MaxLit

ArithInputs ==
  {Join(<<Lit(a), Lit(b), op, T_PRINTI>>) : a \in Lits, b \in Lits,
                                            op \in {T_PLUS, T_STAR}}
  \cup {Join(<<Lit(a), T_DUP, T_STAR, T_PRINTI>>) : a \in Lits}

DefInputs ==
  { Join(<<T_DEFUN, T_SQUARE, T_DUP, T_STAR, T_DONE, Lit(6), T_SQUARE, T_PRINTI>>),
    Join(<<T_DEFVAL, T_TEN, Lit(10), T_DONE, T_TEN, T_TEN, T_PLUS, T_PRINTI>>),
    Join(<<T_DEFVAL, T_TEN, Lit(10), T_DONE, T_TEN, T_PRINTI>>),
    Join(<<T_DEFUN, T_SQUARE, T_NOPE, T_DONE>>),
    Join(<<T_DEFMACRO, T_SQUARE, T_NOPE, T_DONE>>),
    Join(<<T_DEFMACRO, T_TEN, Lit(10), T_PRINTI, T_DONE, T_DEFUN, T_SQUARE, T_TEN, T_DONE>>) }

StringInputs ==
  { Join(<<T_HI, T_PRINTS>>), Join(<<T_EMPTYSTR, T_PRINTS>>), <<"\"", "h", "i">> }

ErrorInputs ==
  { T_NOPE, <<")">>, <<"]">>, Join(<<Lit(1), <<")">>, Lit(2)>>) }

CursorInputs ==
  { Join(<<T_PROGRAM, T_PGET, T_PRINTI>>),
    Join(<<T_PROGRAM, Lit(0), T_PSET, T_PROGRAM, T_PGET, T_PRINTI>>),
    Join(<<T_DEFUN, T_SQUARE, T_DONE, T_PROGRAM, Lit(ProgramBase), T_PSET,
           T_DEFUN, T_TEN, T_DONE>>) }

T_F == <<"F">>

\* the number of integer literals whose code no longer fits the code buffer
OverflowLits == (PROGRAM_AREA_SIZE \div asm_integer(1).instr.len) + 1

\* one definition whose body is that many literals
OverflowInputs ==
  { Join(<<T_DEFUN, T_F>>) \o
      [i \in 1..(2 * OverflowLits) |-> IF i % 2 = 1 THEN " " ELSE "1"] }

T_M == <<"M">>
T_G == <<"G">>
T_H == <<"H">>

\* a definition form run by a DEFVAL body, and one run by a macro that is
\* invoked while a DEFUN body is compiled
NestedInputs ==
  { Join(<<T_DEFVAL, T_TEN, T_DEFUN, T_SQUARE, Lit(1), T_DONE, Lit(5), T_DONE,
           T_SQUARE, T_PRINTI>>),
    Join(<<T_DEFMACRO, T_M, T_DEFUN, T_DONE,
           T_DEFUN, T_G, T_M, T_H, Lit(1), T_DONE, Lit(2), T_DONE,
           T_G, T_PRINTI>>) }

\* a function redefined with a reference to its own name in the new body
SelfRefInputs ==
  { Join(<<T_DEFUN, T_F, Lit(1), T_DONE, T_DEFUN, T_F, T_F, T_DONE>>) }

\* files that end inside the body of a definition form
EofBodyInputs ==
  { Join(<<T_DEFUN, T_F, Lit(1)>>) \o <<" ">>,
    Join(<<T_DEFVAL, T_TEN, Lit(1)>>) \o <<" ">>,
    Join(<<T_DEFMACRO, T_M>>) \o <<" ">> }

\* an intrinsic that pops, run on the empty parameter stack
UnderflowInputs == { T_PRINTI, Join(<<T_PRINTI, Lit(7), T_PRINTI>>) }

\* DEFVAL bodies that leave two values and none, a DEFUN body of two objects
UnbalancedInputs ==
  { Join(<<Lit(5), T_DEFVAL, T_TEN, Lit(1), Lit(2), T_DONE, T_PRINTI>>),
    Join(<<Lit(5), T_DEFVAL, T_TEN, T_DONE, T_PRINTI>>),
    Join(<<Lit(5), T_DEFUN, T_F, Lit(1), Lit(2), T_DONE, T_PRINTI>>) }

\* F redefined after G, whose body calls F, was compiled
RebindInputs ==
  { Join(<<T_DEFUN, T_F, Lit(1), T_DONE, T_DEFUN, T_G, T_F, T_DONE,
           T_DEFUN, T_F, Lit(2), T_DONE, T_G, T_PRINTI, T_F, T_PRINTI>>) }

\* datums with no blank between them, at top level and in a body
AdjacentInputs ==
  { Lit(5) \o <<" ">> \o T_PRINTI \o T_HI \o T_PRINTS,
    T_DEFUN \o <<" ">> \o T_F \o T_HI \o T_DONE \o <<" ">> \o T_F
      \o <<" ">> \o T_PRINTS }

\* a value symbol and a string in the body of a function
BodyInputs ==
  { Join(<<T_DEFVAL, T_TEN, Lit(10), T_DONE, T_DEFUN, T_F, T_TEN, T_HI, T_DONE>>) }

\* a function named DONE in the table, and a string DONE in a body
DoneInputs ==
  { Join(<<T_DEFUN, T_DONE, T_DONE, T_DEFUN, T_F, Lit(2), T_DONE, T_F, T_PRINTI>>),
    Join(<<T_DEFUN, T_F, <<"\"">> \o T_DONE \o <<"\"">>, T_DONE>>) }

\* files without a datum
BlankInputs == { <<>>, <<" ">>, <<Newline>>, <<Tab, " ", CarriageReturn, Newline>> }

\* blanks behind the last datum
TrailingInputs ==
  { Join(<<Lit(1), T_PRINTI>>) \o <<" ", Newline>>,
    Join(<<T_DEFUN, T_F, T_DONE>>) \o <<Newline>> }

\* definition forms whose name is an integer or a string
BadNameInputs ==
  { Join(<<T_DEFUN, Lit(5), Lit(1), T_DONE>>),
    Join(<<T_DEFVAL, T_HI, Lit(1), T_DONE>>),
    Join(<<T_DEFMACRO, Lit(0), T_DONE>>) }

Inputs == ArithInputs \cup DefInputs \cup StringInputs \cup ErrorInputs
            \cup CursorInputs \cup OverflowInputs \cup NestedInputs
            \cup SelfRefInputs \cup EofBodyInputs \cup DoneInputs
            \cup BlankInputs \cup TrailingInputs \cup BadNameInputs \cup BodyInputs
            \cup UnderflowInputs \cup UnbalancedInputs
            \cup RebindInputs \cup AdjacentInputs

\* what the memory after an unterminated byte vector may hold
Tails == {<<>>, <<"~">>}
Choices == [tail : Tails, crash : BOOLEAN]

(***************************************************************************)
(* State and actions                                                       *)
(***************************************************************************)
VARIABLES file, status, diag, out, symtab, mem, sp, cursor, code, written,
          ctl, inrest, heap, readtab,
          added,   \* history: the calls the stand-alone specifications made, in order
          build,   \* the Makefile target the binary was built with
          prot,    \* the protection of the code buffer: "rwx", or "rw" when
                   \* mprotect was refused
          argv     \* the input files main has not opened yet

vars == <<file, status, diag, out, symtab, mem, sp, cursor, code, written,
          ctl, inrest, heap, readtab, added, build, prot, argv>>

Cur ==
  [status |-> status, diag |-> diag, out |-> out, symtab |-> symtab,
   mem |-> mem, sp |-> sp, cursor |-> cursor, code |-> code,
   written |-> written, ctl |-> ctl, inrest |-> inrest, heap |-> heap,
   readtab |-> readtab, build |-> build, prot |-> prot, argv |-> argv]

Apply(m) ==
  /\ status' = m.status   /\ diag' = m.diag       /\ out' = m.out
  /\ symtab' = m.symtab   /\ mem' = m.mem         /\ sp' = m.sp
  /\ cursor' = m.cursor   /\ code' = m.code       /\ written' = m.written
  /\ ctl' = m.ctl         /\ inrest' = m.inrest   /\ heap' = m.heap
  /\ readtab' = m.readtab /\ file' = file       /\ added' = added
  /\ build' = build      /\ prot' = prot        /\ argv' = m.argv

\* main up to the first read, the file opened, in the binary of target b,
\* the code buffer left with protection p by mprotect
BootOn(input, b, p) ==
  /\ build = b
  /\ prot = p
  /\ argv = <<>>
  /\ file = input
  /\ status = "run"
  /\ diag = [kind |-> "none", arg |-> <<>>]
  /\ out = <<>>
  /\ symtab = InitialSymtab
  /\ mem = <<>>
  /\ sp = StackTop
  /\ cursor = ProgramBase
  /\ code = <<>>
  /\ written = {}
  /\ ctl = <<MainFrame>>
  /\ inrest = input
  /\ heap = <<>>
  /\ readtab = default_readtable
  /\ added = <<>>

\* main on a platform that grants the executable mapping
Boot(input, b) == BootOn(input, b, "rwx")

\* the release binary (-O3), in which call_guest_function is inlined and
\* keeps nothing below the native stack pointer
InitWith(input) == Boot(input, "release")

Init == \E input \in Inputs : InitWith(input)

\* the top-level loop reads one object and evaluates it
MainRead ==
  /\ status = "run" /\ Top(ctl).k = "main"
  /\ \E ch \in Choices : Apply(main_step(Cur, ch))

\* a definition form reads its name
DefineName ==
  /\ status = "run" /\ Top(ctl).k = "def" /\ Top(ctl).phase = "name"
  /\ \E ch \in Choices : Apply(define_name(Cur, ch))

\* a definition form reads one body object, or DONE
DefineBody ==
  /\ status = "run" /\ Top(ctl).k = "def" /\ Top(ctl).phase = "body"
  /\ \E ch \in Choices : Apply(define_body(Cur, ch))

\* compiled code executes one instruction
GuestStep ==
  /\ status = "run" /\ Top(ctl).k = "guest"
  /\ \E ch \in Choices : Apply(guest_step(Cur, ch))

Next == MainRead \/ DefineName \/ DefineBody \/ GuestStep

Spec == Init /\ [][Next]_vars

(***************************************************************************)
(* Integer literals on their own: each literal evaluated at top level, and *)
(* compiled into a function that is then called                            *)
(***************************************************************************)
(***************************************************************************)
(* The binaries of both Makefile targets, on the arithmetic and definition *)
(* programs                                                                *)
(***************************************************************************)
Builds == {"debug", "release"}

BuildInit ==
  \E input \in ArithInputs \cup DefInputs, b \in Builds : Boot(input, b)

BuildSpec == BuildInit /\ [][Next]_vars

(***************************************************************************)
(* The release binary on platforms that grant or refuse the executable     *)
(* mapping of the code buffer                                              *)
(***************************************************************************)
Prots == {"rwx", "rw"}

PlatformInit ==
  \E input \in ArithInputs \cup DefInputs, p \in Prots :
    BootOn(input, "release", p)

PlatformSpec == PlatformInit /\ [][Next]_vars

(***************************************************************************)
(* Several input files on the command line                                 *)
(***************************************************************************)
FileLists ==
  { <<Join(<<T_DEFUN, T_SQUARE, T_DUP, T_STAR, T_DONE>>),
      Join(<<Lit(6), T_SQUARE, T_PRINTI>>)>>,
    <<Join(<<T_DEFVAL, T_TEN, Lit(10), T_DONE>>), <<>>,
      Join(<<T_TEN, T_PRINTI>>)>>,
    <<Join(<<Lit(1), T_PRINTI>>), Join(<<Lit(2), T_PRINTI>>)>>,
    <<Join(<<Lit(2), T_PRINTI>>), Join(<<Lit(1), T_PRINTI>>), <<" ">>>>,
    <<Lit(5) \o <<Newline>>, T_PRINTI>>,
    <<Lit(3) \o <<" ">>, T_DUP, Join(<<T_STAR, T_PRINTI>>)>>,
    <<Join(<<T_DEFMACRO, T_TEN, Lit(10), T_PRINTI, T_DONE>>),
      Join(<<T_DEFUN, T_SQUARE, T_TEN, T_DONE>>)>> }

\* main with the first file opened and the others waiting
FilesInit ==
  \E list \in FileLists :
    /\ argv = Tail(list)
    /\ file = Head(list) /\ inrest = Head(list)
    /\ build = "release" /\ prot = "rwx"
    /\ status = "run"
    /\ diag = [kind |-> "none", arg |-> <<>>]
    /\ out = <<>>
    /\ symtab = InitialSymtab
    /\ mem = <<>> /\ sp = StackTop
    /\ cursor = ProgramBase /\ code = <<>> /\ written = {}
    /\ ctl = <<MainFrame>>
    /\ heap = <<>>
    /\ readtab = default_readtable
    /\ added = <<>>

FilesSpec == FilesInit /\ [][Next]_vars

LitValues ==
  {0, 1, 9, 10, MaxLit, MaxWord, MaxWord - 1, MinWord, MinWord + 1, 0 - 1, 0 - 10}

\* the spellings of v: bare or with + when v >= 0, with - when v < 0
LitTexts(v) ==
  IF v >= 0 THEN {Digits(v), <<"+">> \o Digits(v)} \cup
                 (IF v = 0 THEN {<<"-", "0">>} ELSE {})
  ELSE {<<"-">> \o Digits(0 - v)}

CompiledLit(t) == Join(<<T_DEFUN, T_F, t, T_DONE, T_F>>)

LitInputs ==
  UNION {LitTexts(v) : v \in LitValues}
  \cup {CompiledLit(t) : t \in UNION {LitTexts(v) : v \in LitValues}}

LitInit == \E input \in LitInputs : InitWith(input)

LitSpec == LitInit /\ [][Next]_vars

(***************************************************************************)
(* The symbol table on its own: any sequence of up to MaxAdds additions to *)
(* an empty table                                                          *)
(***************************************************************************)
MaxAdds == 2

SymNames == {<<"A">>, <<"a">>, <<"A", "B">>}
SymValues == {1, 2}
SymKinds == {"value", "function", "macro"}

\* main before its first ADD_SYM: the table is SYMTAB_EMPTY
SymtabInit ==
  /\ symtab = SYMTAB_EMPTY
  /\ added = <<>>
  /\ build = "release" /\ prot = "rwx" /\ argv = <<>>
  /\ file = <<>> /\ inrest = <<>>
  /\ status = "run"
  /\ diag = [kind |-> "none", arg |-> <<>>]
  /\ out = <<>>
  /\ mem = <<>> /\ sp = StackTop
  /\ cursor = ProgramBase /\ code = <<>> /\ written = {}
  /\ ctl = <<MainFrame>>
  /\ heap = <<>>
  /\ readtab = default_readtable

AddSymbol ==
  /\ Len(added) < MaxAdds
  /\ \E n \in SymNames, v \in SymValues, k \in SymKinds :
       /\ symtab' = symtab_add_symbol(symtab, n, v, k)
       /\ added' = Append(added, [name |-> n, value |-> v, kind |-> k])
  /\ UNCHANGED <<file, status, diag, out, mem, sp, cursor, code, written,
                 ctl, inrest, heap, readtab, build, prot, argv>>

SymtabNext == AddSymbol

SymtabSpec == SymtabInit /\ [][SymtabNext]_vars

\* the entry a lookup of n has to return after the additions in log
LastAdded(log, n) ==
  LET hits == {i \in 1..Len(log) : log[i].name = n} IN
  IF hits = {} THEN NullEntry
  ELSE LET i == CHOOSE j \in hits : \A h \in hits : h <= j IN
       [symbol_name |-> n, symbol_value |-> log[i].value,
        symbol_type |-> log[i].kind]

(***************************************************************************)
(* asm_call alone: one call instruction emitted at any cursor for any       *)
(* target, with both taken around the thresholds of the three encodings.   *)
(***************************************************************************)
CallCursors ==
  {0, 40, Rel32Limit + 10, ImmMod + 7, Pow2(WordBits - 1) - 3,
   Pow2(WordBits - 1) + 9, WordMod - 20}

\* offsets from the cursor around the reach of the relative form
CallOffsets ==
  {0, 1, 4, 5, 6, Rel32Limit - 1, Rel32Limit, Rel32Limit + 1,
   Pow2(ImmBits - 1) + 4, Pow2(ImmBits - 1) + 5, Pow2(ImmBits - 1) + 6}

CallTargets(pgm) ==
  ({(pgm + d) % WordMod : d \in CallOffsets}
     \cup {(pgm - d) % WordMod : d \in CallOffsets}
     \cup {1, Imm32Max - 1, Imm32Max, ImmMod, ImmMod + 1,
           Pow2(WordBits - 1) - 1, Pow2(WordBits - 1), WordMod - 1})
    \ {NULL}

CallInit ==
  /\ cursor \in CallCursors
  /\ code = <<>> /\ written = {}
  /\ added = <<>>
  /\ symtab = SYMTAB_EMPTY
  /\ build = "release" /\ prot = "rwx" /\ argv = <<>>
  /\ file = <<>> /\ inrest = <<>>
  /\ status = "run"
  /\ diag = [kind |-> "none", arg |-> <<>>]
  /\ out = <<>>
  /\ mem = <<>> /\ sp = StackTop
  /\ ctl = <<MainFrame>>
  /\ heap = <<>>
  /\ readtab = default_readtable

\* pgm = asm_call(pgm, function), as compile does for a function symbol
EmitCall ==
  /\ added = <<>>
  /\ \E function \in CallTargets(cursor) :
       LET e == asm_call(cursor, function) IN
       /\ code' = (cursor :> e.instr)
       /\ written' = cursor..(cursor + e.wlen - 1)
       /\ cursor' = cursor + e.instr.len
       /\ added' = <<[name |-> "asm_call", value |-> function, kind |-> cursor]>>
  /\ UNCHANGED <<file, status, diag, out, symtab, mem, sp, ctl, inrest, heap,
                 readtab, build, prot, argv>>

CallNext == EmitCall

CallSpec == CallInit /\ [][CallNext]_vars

(***************************************************************************)
(* The emitter operations alone, each applied at the cursor the one before  *)
(* returned, on the buffer as main leaves it: every byte 0xcc, written      *)
(* empty.                                                                   *)
(***************************************************************************)
MaxEmits == MaxAdds + 1
EmitCursors == {ProgramBase, ProgramEnd - 2 * PTRSIZE}
EmitCallees == {NULL, HostAddr("dup"), ProgramBase}

EmitterInit ==
  /\ cursor \in EmitCursors
  /\ code = <<>> /\ written = {}
  /\ added = <<>>
  /\ symtab = SYMTAB_EMPTY
  /\ build = "release" /\ prot = "rwx" /\ argv = <<>>
  /\ file = <<>> /\ inrest = <<>>
  /\ status = "run"
  /\ diag = [kind |-> "none", arg |-> <<>>]
  /\ out = <<>>
  /\ mem = <<>> /\ sp = StackTop
  /\ ctl = <<MainFrame>>
  /\ heap = <<>>
  /\ readtab = default_readtable

\* pgm = asm_xxx(pgm, ...): the bytes of e stored at the cursor
EmitOp(e) ==
  /\ status = "run" /\ Len(added) < MaxEmits
  /\ LET m == Emit(Cur, e) IN
       /\ status' = m.status /\ code' = m.code /\ written' = m.written
       /\ cursor' = m.cursor
  /\ added' = Append(added, [name |-> e.instr.op, value |-> e.instr.arg,
                             kind |-> cursor])
  /\ UNCHANGED <<file, diag, out, symtab, mem, sp, ctl, inrest, heap,
                 readtab, build, prot, argv>>

EmitPrologue == EmitOp(asm_prologue)
EmitEpilogue == EmitOp(asm_epilogue)
EmitRet == EmitOp(asm_ret)
EmitCallTo == \E function \in EmitCallees : EmitOp(asm_call(cursor, function))
EmitInteger == \E l \in {0, 1, WordMod - 1} : EmitOp(asm_integer(l))

EmitterNext ==
  EmitPrologue \/ EmitEpilogue \/ EmitRet \/ EmitCallTo \/ EmitInteger

EmitterSpec == EmitterInit /\ [][EmitterNext]_vars

(***************************************************************************)
(* The code buffer main carves out of the block calloc returns, for the    *)
(* addresses calloc may return within one page.  cursor holds              *)
(* *program_area_ptr, added the address of the block.                      *)
(***************************************************************************)
\* malloc's alignment
AllocAlign == 2 * PTRSIZE
AllocAddrs == {BlockPtr + AllocAlign * i : i \in 0..(PAGE_SIZE \div AllocAlign)}

AllocInit ==
  /\ cursor = NULL
  /\ code = <<>> /\ written = {}
  /\ added = <<>>
  /\ symtab = SYMTAB_EMPTY
  /\ build = "release" /\ prot = "rw" /\ argv = <<>>
  /\ file = <<>> /\ inrest = <<>>
  /\ status = "run"
  /\ diag = [kind |-> "none", arg |-> <<>>]
  /\ out = <<>>
  /\ mem = <<>> /\ sp = StackTop
  /\ ctl = <<MainFrame>>
  /\ heap = <<>>
  /\ readtab = default_readtable

\* calloc, the rounding, mprotect and *program_area_ptr = program_area
CarveProgramArea ==
  /\ added = <<>>
  /\ \E ptr \in AllocAddrs :
       /\ cursor' = program_area_base(ptr)
       /\ added' = <<[name |-> "calloc", value |-> ptr,
                      kind |-> PROGRAM_AREA_SIZE + PAGE_SIZE]>>
  /\ prot' = "rwx"
  /\ UNCHANGED <<file, status, diag, out, symtab, mem, sp, code, written, ctl,
                 inrest, heap, readtab, build, argv>>

AllocNext == CarveProgramArea

AllocSpec == AllocInit /\ [][AllocNext]_vars

(***************************************************************************)
(* asm_patch_call alone, on the bytes of a code buffer.  In PatchSpec mem   *)
(* maps the byte addresses of the buffer to byte values; a word's upper     *)
(* bytes are zero, as the words of the model are WordBits wide.             *)
(***************************************************************************)
RECURSIVE ByteOf(_, _)
\* byte i (from 1, least significant first) of the value v
ByteOf(v, i) == IF i = 1 THEN v % 256 ELSE ByteOf(v \div 256, i - 1)

\* the 8 bytes of a uint64_t store of v
Quad(v) == [i \in 1..8 |-> ByteOf(v, i)]

\* 48 b9 imm64 ff d1: movabsq rcx, function; callq [rcx]
Abs64Bytes(function) == <<72, 185>> \o Quad(function) \o <<255, 209>>

\* the bytes b stored from address a on
StoreBytes(bytes, a, b) ==
  [x \in DOMAIN bytes |->
     IF x \in a..(a + Len(b) - 1) THEN b[x - a + 1] ELSE bytes[x]]

\* the patch stored one byte early, over the b9 of the instruction
asm_patch_call_early(bytes, call, function) ==
  StoreBytes(bytes, call + 1, Quad(function))

\* *(uint64_t*)((uint8_t*)call + 2) = (uint64_t)function
asm_patch_call(bytes, call, function) ==
  StoreBytes(bytes, call + 2, Quad(function))

PatchBufferLen == 3 * PTRSIZE
PatchBuffer == ProgramBase..(ProgramBase + PatchBufferLen - 1)
PatchSites == {ProgramBase, ProgramBase + 1, ProgramBase + 4}
\* what the buffer holds before the call is emitted
PatchFills == {0, 204}
\* callees the 64-bit absolute form is emitted for, NULL among them
PatchFunctions == {NULL, HostAddr("dup"), WordMod - 1}
PatchTargets ==
  {HostAddr("dup"), HostAddr("print_int"), ProgramBase, 1, 255, WordMod - 1}

PatchInit ==
  /\ cursor \in PatchSites
  /\ \E fill \in PatchFills : mem = [a \in PatchBuffer |-> fill]
  /\ code = <<>> /\ written = {}
  /\ added = <<>>
  /\ symtab = SYMTAB_EMPTY
  /\ build = "release" /\ prot = "rwx" /\ argv = <<>>
  /\ file = <<>> /\ inrest = <<>>
  /\ status = "run"
  /\ diag = [kind |-> "none", arg |-> <<>>]
  /\ out = <<>>
  /\ sp = StackTop
  /\ ctl = <<MainFrame>>
  /\ heap = <<>>
  /\ readtab = default_readtable

\* pgm = asm_call(pgm, function) for a callee that takes the longest form
EmitAbsCall ==
  /\ added = <<>>
  /\ \E function \in PatchFunctions :
       LET e == asm_call(cursor, function) IN
       /\ e.instr.form = "abs64"
       /\ code' = (cursor :> e.instr)
       /\ mem' = StoreBytes(mem, cursor, Abs64Bytes(e.instr.arg))
       /\ written' = cursor..(cursor + e.wlen - 1)
       /\ cursor' = cursor + e.instr.len
       /\ added' = <<[name |-> "asm_call", value |-> function, kind |-> cursor]>>
  /\ UNCHANGED <<file, status, diag, out, symtab, sp, ctl, inrest, heap,
                 readtab, build, prot, argv>>

\* asm_patch_call(site, function) on the call site emitted before
PatchCall ==
  /\ added # <<>> /\ Len(added) <= MaxAdds
  /\ \E function \in PatchTargets :
       LET site == added[1].kind IN
       /\ mem' = asm_patch_call(mem, site, function)
       /\ code' = [code EXCEPT ![site].arg = function]
       /\ added' = Append(added, [name |-> "asm_patch_call", value |-> function,
                                  kind |-> site])
  /\ UNCHANGED <<file, status, diag, out, symtab, sp, cursor, written, ctl,
                 inrest, heap, readtab, build, prot, argv>>

PatchNext == EmitAbsCall \/ PatchCall

PatchSpec == PatchInit /\ [][PatchNext]_vars

(***************************************************************************)
(* read alone, under readtables that give one byte any set of properties   *)
(* and any dispatch slot.                                                  *)
(***************************************************************************)
CharProps ==
  {"constituent", "number_init", "number", "macro", "whitespace", "error"}

Handlers == {"null", "read_string", "read_number", "read_list"}

\* the default readtable with the entries of the byte X replaced
ReadtableWith(props, handler) ==
  [ char_properties |-> [default_readtable.char_properties EXCEPT !["X"] = props],
    macro_dispatch  |-> [default_readtable.macro_dispatch EXCEPT !["X"] = handler] ]

\* streams whose first datum byte folds to X
ReadFiles ==
  { <<"x", "1", " ">>, <<" ", Newline, "X", "1", "\"", "2">> }

ReadInit ==
  /\ \E props \in SUBSET CharProps, handler \in Handlers :
       readtab = ReadtableWith(props, handler)
  /\ \E input \in ReadFiles : file = input /\ inrest = input
  /\ added = <<>>
  /\ symtab = SYMTAB_EMPTY
  /\ build = "release" /\ prot = "rwx" /\ argv = <<>>
  /\ status = "run"
  /\ diag = [kind |-> "none", arg |-> <<>>]
  /\ out = <<>>
  /\ mem = <<>> /\ sp = StackTop
  /\ cursor = ProgramBase /\ code = <<>> /\ written = {}
  /\ ctl = <<MainFrame>>
  /\ heap = <<>>

\* one call of read on the stream
ReadDatum ==
  /\ added = <<>>
  /\ \E tail \in Tails :
       LET r == read(readtab, inrest, tail) IN
       /\ added' = <<r>>
       /\ inrest' = r.rest
  /\ UNCHANGED <<file, status, diag, out, symtab, mem, sp, cursor, code,
                 written, ctl, heap, readtab, build, prot, argv>>

ReadNext == ReadDatum

ReadSpec == ReadInit /\ [][ReadNext]_vars

(***************************************************************************)
(* One call of read, one loop iteration at a time.  The frame on top of    *)
(* ctl is the reader whose loop is running: k names it, name holds its     *)
(* vector and type tells read_number to negate.  When read has returned    *)
(* its frame is gone and added holds what it returned; a fatal error ends  *)
(* the run.                                                                *)
(***************************************************************************)
MaxStream == 3
ReaderBytes == {" ", "a", "1", "-", "\"", ")"}
Streams == UNION {[1..n -> ReaderBytes] : n \in 0..MaxStream}

ReaderFrame(fn, vec, negate) ==
  Frame(fn, IF negate THEN "negate" ELSE "none", "loop", vec, 0, 0, 0)

\* the readers that loop
Readers == {"read", "read_symbol", "read_number", "read_string"}

\* continue in the loop of read without giving the blank back
SkipWhitespaceUnread(rest) == rest

\* continue in the loop of read: the blank fgetc took is gone
SkipWhitespace(rest) == Tail(rest)

Looping(f, rest) == [f |-> f, rest |-> rest, done |-> FALSE]
Returning(r) == [r |-> r, rest |-> r.rest, done |-> TRUE]

\* read calls the handler with the stream and the classifier byte
EnterHandler(handler, character, after) ==
  IF handler = "read_string"
    THEN Looping(ReaderFrame("read_string", vector_new, FALSE), after)
  ELSE IF handler = "read_symbol"
    THEN Looping(ReaderFrame("read_symbol",
                             vector_append(vector_new, character), FALSE), after)
  ELSE IF handler = "read_number"
    THEN Looping(ReaderFrame("read_number",
                             IF character \in {"-", "+"} THEN vector_new
                             ELSE vector_append(vector_new, character),
                             character = "-"), after)
  ELSE Returning(ReadFatal("not_implemented", handler, after))

\* one iteration of while (1) in read
ReadIteration(rt, f, rest) ==
  IF rest = <<>> THEN Returning([k |-> "none", rest |-> rest])
  ELSE
    LET character == ToUpper(Head(rest))
        cprop     == rt.char_properties[character]
        after     == Tail(rest)
    IN
    IF "error" \in cprop
      THEN Returning(ReadFatal("illegal_character", character, after))
    ELSE IF "whitespace" \in cprop THEN Looping(f, SkipWhitespace(rest))
    ELSE IF "macro" \in cprop
      THEN IF rt.macro_dispatch[character] = "null"
             THEN Returning(ReadFatal("macro_no_handler", character, after))
             ELSE EnterHandler(rt.macro_dispatch[character], character, after)
    ELSE IF "number_init" \in cprop
      THEN EnterHandler("read_number", character, after)
    ELSE IF "constituent" \in cprop
      THEN EnterHandler("read_symbol", character, after)
    ELSE IF "number" \in cprop
      THEN Returning(ReadFatal("number_continuation", character, after))
    ELSE Returning(ReadFatal("no_properties", character, after))

\* one iteration of while (1) in read_symbol
SymbolIteration(rt, f, rest, tail) ==
  LET sym == [type |-> "symbol", repr |-> CString(f.name, tail)] IN
  IF rest = <<>> THEN Returning([k |-> "obj", obj |-> sym, rest |-> rest])
  ELSE LET character == ToUpper(Head(rest)) IN
       IF "constituent" \notin rt.char_properties[character]
         THEN Returning([k |-> "obj", obj |-> sym,
                         rest |-> <<character>> \o Tail(rest)])
         ELSE Looping([f EXCEPT !.name = vector_append(f.name, character)],
                      Tail(rest))

\* one iteration of while (1) in read_number, the conversion behind it
NumberIteration(rt, f, rest) ==
  LET value == DecimalLoop(f.name, vector_length(f.name), 0, 1)
      num   == [type |-> "number",
                value |-> IF f.type = "negate" THEN Wrap(0 - value) ELSE value]
  IN
  IF rest = <<>> \/ "number" \notin rt.char_properties[Head(rest)]
    THEN Returning([k |-> "obj", obj |-> num, rest |-> rest])
    ELSE Looping([f EXCEPT !.name = vector_append(f.name, Head(rest))],
                 Tail(rest))

\* one iteration of while (1) in read_string
StringIteration(f, rest, tail) ==
  IF rest = <<>> THEN Returning(ReadFatal("eof_in_string", <<>>, rest))
  ELSE IF Head(rest) = "\""
    THEN Returning([k |-> "obj",
                    obj |-> [type |-> "string", vec |-> f.name, tail |-> tail],
                    rest |-> Tail(rest)])
  ELSE Looping([f EXCEPT !.name = vector_append(f.name, Head(rest))], Tail(rest))

ReaderInit ==
  /\ file \in Streams
  /\ inrest = file
  /\ ctl = <<MainFrame, ReaderFrame("read", vector_new, FALSE)>>
  /\ added = <<>>
  /\ status = "run"
  /\ diag = [kind |-> "none", arg |-> <<>>]
  /\ readtab = default_readtable
  /\ symtab = SYMTAB_EMPTY
  /\ build = "release" /\ prot = "rwx" /\ argv = <<>>
  /\ out = <<>>
  /\ mem = <<>> /\ sp = StackTop
  /\ cursor = ProgramBase /\ code = <<>> /\ written = {}
  /\ heap = <<>>

\* the reader on top of ctl goes on as c says: round its loop once more,
\* into the handler, back to the caller of read or into error()
ReaderGoes(c) ==
  /\ inrest' = c.rest
  /\ IF ~c.done
       THEN /\ ctl' = <<MainFrame, c.f>>
            /\ UNCHANGED <<added, status, diag>>
     ELSE IF c.r.k = "fatal"
       THEN /\ status' \in {"exit1", "crash"}
            /\ diag' = [kind |-> c.r.kind, arg |-> c.r.arg]
            /\ UNCHANGED <<ctl, added>>
     ELSE /\ ctl' = <<MainFrame>>
          /\ added' = <<c.r>>
          /\ UNCHANGED <<status, diag>>
  /\ UNCHANGED <<file, out, symtab, mem, sp, cursor, code, written, heap,
                 readtab, build, prot, argv>>

InReader(fn) == status = "run" /\ Top(ctl).k = fn

ReadLoop ==
  InReader("read") /\ ReaderGoes(ReadIteration(readtab, Top(ctl), inrest))
SymbolReaderLoop ==
  /\ InReader("read_symbol")
  /\ \E tail \in Tails : ReaderGoes(SymbolIteration(readtab, Top(ctl), inrest, tail))
NumberReaderLoop ==
  InReader("read_number") /\ ReaderGoes(NumberIteration(readtab, Top(ctl), inrest))
StringReaderLoop ==
  /\ InReader("read_string")
  /\ \E tail \in Tails : ReaderGoes(StringIteration(Top(ctl), inrest, tail))

ReaderNext ==
  ReadLoop \/ SymbolReaderLoop \/ NumberReaderLoop \/ StringReaderLoop

ReaderSpec == ReaderInit /\ [][ReaderNext]_vars

\* a reader that can make a step makes it: the process is not stopped
ReaderLive == ReaderSpec /\ WF_vars(ReaderNext)

(***************************************************************************)
(* Properties                                                              *)
(***************************************************************************)
Finished == status # "run"
Printed(v) == <<[t |-> "int", v |-> v]>>
PrintedString(str) == <<[t |-> "str", v |-> str]>>

\* C1: every finished run of "a b + PRINTI" has printed a+b, and the run of
\* "DEFVAL TEN 10 DONE TEN TEN + PRINTI" has printed 20.
C1_PlusAdds ==
  /\ \A a \in Lits, b \in Lits :
       (file = Join(<<Lit(a), Lit(b), T_PLUS, T_PRINTI>>) /\ Finished)
         => (status = "exit0" /\ out = Printed(Wrap(a + b)))
  /\ (file = Join(<<T_DEFVAL, T_TEN, Lit(10), T_DONE, T_TEN, T_TEN, T_PLUS,
                    T_PRINTI>>) /\ Finished)
       => (status = "exit0" /\ out = Printed(20))

\* C2: calling a function defined with DEFUN does what its body does at top
\* level: every finished run of "DEFUN SQUARE DUP * DONE 6 SQUARE PRINTI" has
\* printed 36 and left the parameter stack as "6 DUP * PRINTI" leaves it.
C2_DefunBodyAsTopLevel ==
  (file = Join(<<T_DEFUN, T_SQUARE, T_DUP, T_STAR, T_DONE, Lit(6), T_SQUARE,
                 T_PRINTI>>) /\ Finished)
    => (status = "exit0" /\ out = Printed(36) /\ sp = StackTop)

\* C3: in "DEFVAL TEN 10 DONE TEN PRINTI" the name TEN is not registered
\* while the form is running, is registered as the value 10 once the run has
\* finished, and its later evaluation has pushed 10 (which PRINTI printed).
C3_DefvalRegistersValue ==
  file = Join(<<T_DEFVAL, T_TEN, Lit(10), T_DONE, T_TEN, T_PRINTI>>) =>
    /\ Top(ctl).k = "def" => symtab_lookup_symbol(symtab, T_TEN) = NullEntry
    /\ Finished =>
         /\ status = "exit0"
         /\ symtab_lookup_symbol(symtab, T_TEN)
              = [symbol_name |-> T_TEN, symbol_value |-> 10,
                 symbol_type |-> "value"]
         /\ out = Printed(10)

C5_MultDupPrint ==
  /\ \A a \in Lits, b \in Lits :
       (file = Join(<<Lit(a), Lit(b), T_STAR, T_PRINTI>>) /\ Finished)
         => (status = "exit0" /\ out = Printed(Wrap(a * b)) /\ sp = StackTop)
  /\ \A a \in Lits :
       (file = Join(<<Lit(a), T_DUP, T_STAR, T_PRINTI>>) /\ Finished)
         => (status = "exit0" /\ out = Printed(Wrap(a * a)) /\ sp = StackTop)

\* C6: a string literal yields exactly the bytes between its quotes: the
\* finished run of "hi" PRINTS has printed hi, that of "" PRINTS the empty
\* line, and end-of-file inside a string ends the run with the fatal error.
C6_StringReader ==
  /\ (file = Join(<<T_HI, T_PRINTS>>) /\ Finished)
       => (status = "exit0" /\ out = PrintedString(<<"h", "i">>))
  /\ (file = Join(<<T_EMPTYSTR, T_PRINTS>>) /\ Finished)
       => (status = "exit0" /\ out = PrintedString(<<>>))
  /\ (file = <<"\"", "h", "i">> /\ Finished)
       => (status = "exit1" /\ diag.kind = "eof_in_string")

\* C7: an undefined symbol, evaluated at top level or compiled in a DEFUN or
\* DEFMACRO body, ends the run with status 1 and the diagnostic naming it,
\* with nothing pushed and no instruction emitted for it.
C7_UndefinedSymbolFatal ==
  (/\ file \in {T_NOPE, Join(<<T_DEFUN, T_SQUARE, T_NOPE, T_DONE>>),
                Join(<<T_DEFMACRO, T_SQUARE, T_NOPE, T_DONE>>)}
   /\ Finished)
    => /\ status = "exit1"
       /\ diag = [kind |-> "undefined_name", arg |-> T_NOPE]
       /\ \A a \in DOMAIN code : code[a].op = "prologue"

\* C8: a byte with the ERROR property at the start of a datum ends the run
\* with status 1 and the diagnostic naming the byte.
C8_ErrorByteFatal ==
  /\ \A c \in {")", "]"} :
       (file = <<c>> /\ Finished)
         => (status = "exit1" /\ diag = [kind |-> "illegal_character", arg |-> c])
  /\ (file = Join(<<Lit(1), <<")">>, Lit(2)>>) /\ Finished)
       => (status = "exit1" /\ diag = [kind |-> "illegal_character", arg |-> ")"])

\* C9: after any sequence of additions, the lookup of every name returns the
\* entry added last under exactly that name, and NULL if there is none.
C9_LastInsertedWins ==
  \A n \in SymNames \cup {<<"B">>} :
    symtab_lookup_symbol(symtab, n) = LastAdded(added, n)

\* C9 witness: a name added twice with different values, its lookup
\* returning the second; the same letters in the other case stay unknown.
C9_Witness ==
  /\ Len(added) = 2
  /\ added[1].name = <<"A">> /\ added[2].name = <<"A">>
  /\ added[1].value # added[2].value
  /\ symtab_lookup_symbol(symtab, <<"A">>).symbol_value = added[2].value
  /\ symtab_lookup_symbol(symtab, <<"a">>) = NullEntry

\* C10 as the specification states it: no step lowers the write cursor.
C10_CursorMonotonic == [][cursor' >= cursor]_vars

\* the step is PSET storing the value on top of the stack through the
\* *PROGRAM* handle beneath it
PSetThroughProgram ==
  /\ Load(mem, sp + PTRSIZE) = ProgramCell
  /\ sp' = sp + 2 * PTRSIZE
  /\ cursor' = Load(mem, sp)

\* C10: no step lowers the write cursor except a PSET that stores a lower
\* value through the *PROGRAM* handle.
C10_CursorMonotonicButPSet ==
  [][cursor' >= cursor \/ PSetThroughProgram]_vars

\* C10 witness: a definition advanced the cursor, PSET set it back to the
\* start of the code buffer, and a second definition advanced it again.
C10_Witness ==
  /\ file = Join(<<T_DEFUN, T_SQUARE, T_DONE, T_PROGRAM, Lit(ProgramBase),
                   T_PSET, T_DEFUN, T_TEN, T_DONE>>)
  /\ status = "exit0"
  /\ Len(symtab) = Len(InitialSymtab) + 2
  /\ symtab[1].symbol_value = symtab[2].symbol_value
  /\ cursor > ProgramBase

\* C11: in every state the write cursor is at or before the end of the code
\* buffer.
C11_CursorWithinBuffer == cursor <= ProgramEnd

\* C12: between a prologue in the code buffer and the next prologue behind
\* it there is a ret: no definition's code lies inside another's.
C12_OneFunctionPerPrologue ==
  \A a \in DOMAIN code, b \in DOMAIN code :
    (code[a].op = "prologue" /\ code[b].op = "prologue" /\ a < b)
      => \E r \in DOMAIN code : code[r].op = "ret" /\ a < r /\ r < b

\* compiled code is about to execute a call instruction
AtGuestCall ==
  /\ status = "run"
  /\ Top(ctl).k = "guest"
  /\ Top(ctl).ip \in DOMAIN code
  /\ code[Top(ctl).ip].op = "call"

\* C13: whenever compiled code is about to execute a call instruction, the
\* native stack pointer is a multiple of 16.
C13_CallSitesAligned == AtGuestCall => Top(ctl).rsp % 16 = 0

\* control is at the entry address of a compiled function or macro
AtGuestEntry ==
  /\ status = "run"
  /\ Top(ctl).k = "guest"
  /\ \E i \in 1..Len(symtab) :
       /\ symtab[i].symbol_type \in {"function", "macro"}
       /\ symtab[i].symbol_value = Top(ctl).ip

\* C14: whenever a compiled function is entered, the parameter-stack top
\* pointer is a multiple of 16.
C14_ParamStackAlignedAtEntry == AtGuestEntry => sp % 16 = 0

\* C15: once main has read and evaluated the first literal of "a b * PRINTI"
\* through the trampoline, it goes on with the stack top the callee
\* returned: one slot below the base, holding a.
C15_TrampolinePassesStack ==
  \A a \in Lits, b \in Lits :
    (/\ file = Join(<<Lit(a), Lit(b), T_STAR, T_PRINTI>>)
     /\ Len(inrest) = Len(file) - Len(Lit(a)))
      => (status = "run" /\ sp = StackTop - PTRSIZE /\ StackTopValue(Cur) = a)

\* the signed distance from the end of a 5-byte instruction at pgm to function
RelDistance(pgm, function) == Wrap(function - (pgm + 5))

\* C16: for every cursor and every non-null target, the instruction asm_call
\* emits continues at exactly the target; the relative form is used only when
\* the distance from the end of the 5-byte instruction fits a signed 32-bit
\* displacement, the mov form only when the target fits 32 unsigned bits,
\* the 64-bit absolute form in the remaining cases; the returned cursor is
\* the old one plus the length of the encoding (5, 7 or 12).
C16_CallReachesTarget ==
  added # <<>> =>
    LET pgm == added[1].kind
        function == added[1].value
        i == code[pgm]
    IN /\ CallTarget(pgm, i) = function
       /\ i.form \in {"rel32", "imm32", "abs64"}
       /\ i.form = "rel32" =>
            /\ RelDistance(pgm, function) >= 0 - Pow2(ImmBits - 1)
            /\ RelDistance(pgm, function) < Pow2(ImmBits - 1)
       /\ i.form = "imm32" => function < ImmMod
       /\ i.len = (IF i.form = "rel32" THEN 5 ELSE IF i.form = "imm32" THEN 7 ELSE 12)
       /\ cursor = pgm + i.len

\* a relative call to a target behind the cursor has been emitted
C16_Witness ==
  /\ added # <<>>
  /\ code[added[1].kind].form = "rel32"
  /\ added[1].value < added[1].kind

\* a DEFUN or DEFMACRO has read its name and entered its body loop
DefinitionNamed ==
  /\ Top(ctl).k = "def" /\ Top(ctl).phase = "name" /\ Top(ctl).type # "value"
  /\ Len(ctl') = Len(ctl)
  /\ Top(ctl').k = "def" /\ Top(ctl').phase = "body"

\* the step that reads the name registers it at the cursor it found, with
\* the kind of the form, and puts the prologue there
RegistersAtCursor ==
  DefinitionNamed =>
    /\ symtab_lookup_symbol(symtab', Top(ctl').name)
         = [symbol_name |-> Top(ctl').name, symbol_value |-> cursor,
            symbol_type |-> Top(ctl).type]
    /\ cursor \in DOMAIN code' /\ code'[cursor].op = "prologue"
    /\ cursor' = cursor + code'[cursor].len

\* the entry address of the second F of SelfRefInputs: behind the first F
SecondEntry ==
  ProgramBase + asm_prologue.instr.len + asm_integer(1).instr.len
    + asm_epilogue.instr.len + asm_ret.instr.len

\* the second definition of F has read the F of its body
SelfReferenceRead ==
  /\ file \in SelfRefInputs
  /\ Len(inrest) <= Len(T_DONE) + 1

\* the body of the second F starts with a call of the second F
SelfReferenceResolves ==
  SelfReferenceRead =>
    LET at == SecondEntry + asm_prologue.instr.len IN
    /\ at \in DOMAIN code
    /\ code[at].op = "call"
    /\ CallTarget(at, code[at]) = SecondEntry

\* C17: DEFUN and DEFMACRO register the name with the cursor before the
\* prologue and their kind in the step that reads the name, before any body
\* object is read; a reference to the name in its own body compiles a call
\* of the new entry although an older entry of the same name exists.
C17_RegisteredBeforeBody ==
  [][RegistersAtCursor]_vars /\ []SelfReferenceResolves

\* the run has ended in the body loop of a definition form with the input
\* used up
EofInBody ==
  /\ file \in EofBodyInputs
  /\ Finished
  /\ Top(ctl).k = "def" /\ Top(ctl).phase = "body"
  /\ inrest = <<>>

\* C18: when the input ends while a definition form reads its body, the run
\* ends through the fatal error reporter, with a diagnostic and status 1,
\* and the definition is not completed: no epilogue and no ret is emitted.
C18_EofInBodyFatal ==
  EofInBody
    => /\ status = "exit1"
       /\ diag.kind # "none"
       /\ \A a \in DOMAIN code : code[a].op \notin {"epilogue", "ret"}

\* the bytes of the next datum of s, up to the next blank
NextToken(s) ==
  LET starts == {i \in 1..Len(s) : s[i] # " "} IN
  IF starts = {} THEN <<>>
  ELSE LET a == CHOOSE i \in starts : \A j \in starts : i <= j
           blanks == {i \in a..Len(s) : s[i] = " "}
           b == IF blanks = {} THEN Len(s)
                ELSE (CHOOSE i \in blanks : \A j \in blanks : i <= j) - 1
       IN SubSeq(s, a, b)

\* a definition form is about to read the next object of its body
InBodyLoop ==
  status = "run" /\ Top(ctl).k = "def" /\ Top(ctl).phase = "body"

\* the step ends the definition: epilogue and ret are emitted and the form
\* returns to its caller
LeavesBodyLoop ==
  /\ status' = "run"
  /\ Len(ctl') < Len(ctl)
  /\ (cursor' - asm_ret.instr.len) \in DOMAIN code'
  /\ code'[cursor' - asm_ret.instr.len].op = "ret"

\* C19: a step of the body loop ends the definition exactly when the object
\* it reads is the symbol DONE: the first DONE ends the definition whatever
\* the symbol table holds, and no other object or symbol name ends it.
C19_OnlyDoneEndsBody ==
  [][InBodyLoop => (LeavesBodyLoop <=> NextToken(inrest) = T_DONE)]_vars

\* nothing but whitespace is left of s
Blank(s) == \A i \in 1..Len(s) : s[i] \in {" ", Newline, Tab, CarriageReturn}

\* the top-level loop is about to read, and no datum is left
AtEndOfInput ==
  status = "run" /\ Top(ctl).k = "main" /\ Blank(inrest)

\* the step ends the file and the run normally, and does nothing else
StopsAtEndOfInput ==
  /\ status' = "exit0"
  /\ diag' = diag /\ out' = out
  /\ sp' = sp /\ cursor' = cursor /\ code' = code /\ symtab' = symtab

PropsOf(c) == readtab.char_properties[ToUpper(c)]

\* the bytes of the file that read does not skip as whitespace
DatumStarts ==
  {i \in 1..Len(file) :
     "error" \in PropsOf(file[i]) \/ "whitespace" \notin PropsOf(file[i])}

\* what the ordered steps give for the byte c when read returned r
StepsGive(c, r) ==
  LET p == PropsOf(c)
      h == readtab.macro_dispatch[ToUpper(c)]
  IN
  IF "error" \in p THEN r.k = "fatal" /\ r.kind = "illegal_character"
  ELSE IF "macro" \in p
    THEN IF h = "null" THEN r.k = "fatal" /\ r.kind = "macro_no_handler"
         ELSE IF h = "read_string"
           THEN \/ r.k = "obj" /\ r.obj.type = "string"
                \/ r.k = "fatal" /\ r.kind = "eof_in_string"
         ELSE IF h = "read_number" THEN r.k = "obj" /\ r.obj.type = "number"
         ELSE r.k = "fatal" /\ r.kind = "not_implemented"
  ELSE IF "number_init" \in p THEN r.k = "obj" /\ r.obj.type = "number"
  ELSE IF "constituent" \in p THEN r.k = "obj" /\ r.obj.type = "symbol"
  ELSE IF "number" \in p THEN r.k = "fatal" /\ r.kind = "number_continuation"
  ELSE r.k = "fatal" /\ r.kind = "no_properties"

\* C21: whatever set of properties the first byte that is not skipped as
\* whitespace carries, read ends as the ordered steps say: ERROR is fatal,
\* else MACRO goes to the dispatch slot (fatal when it is null), else
\* NUMBER_INIT to the integer reader, else CONSTITUENT to the symbol reader,
\* else NUMBER is the fatal number continuation, else the byte has no
\* properties, which is fatal.
C21_ReadFollowsSteps ==
  added # <<>> =>
    IF DatumStarts = {} THEN added[1].k = "none"
    ELSE StepsGive(file[CHOOSE i \in DatumStarts : \A j \in DatumStarts : i <= j],
                   added[1])

\* a byte that is NUMBER_INIT and CONSTITUENT and NUMBER was read as a number
C21_Witness ==
  /\ added # <<>>
  /\ PropsOf("X") = {"number_init", "constituent", "number"}
  /\ added[1].k = "obj" /\ added[1].obj.type = "number"

\* a DEFUN or DEFMACRO body reads one object in this step
CompilesObject ==
  /\ InBodyLoop /\ Top(ctl).type # "value"
  /\ Len(heap') = Len(heap) + 1

\* the entry the symbol read in this step has in the table, NullEntry when
\* the object is no symbol or DONE or has none
MetEntry ==
  LET rdobj == heap'[Len(heap')] IN
  IF rdobj.type = "symbol" /\ rdobj.repr # T_DONE
    THEN symtab_lookup_symbol(symtab, rdobj.repr)
    ELSE NullEntry

\* the macro is entered in this step, on the parameter stack as it is, and
\* nothing is emitted
MacroInvokedNow ==
  /\ status' = "run"
  /\ ctl' = ctl \o <<CompileFrame(TrampolineEntry(Top(ctl).rsp)),
                      GuestFrame(MetEntry.symbol_value,
                                 TrampolineEntry(TrampolineEntry(Top(ctl).rsp)))>>
  /\ sp' = sp
  /\ cursor' = cursor /\ code' = code

\* a call of the function is emitted at the cursor and nothing is run
CallEmittedOnly ==
  /\ status' = "run"
  /\ ctl' = ctl
  /\ out' = out /\ symtab' = symtab
  /\ cursor \in DOMAIN code' /\ code'[cursor].op = "call"
  /\ CallTarget(cursor, code'[cursor]) = MetEntry.symbol_value
  /\ cursor' = cursor + code'[cursor].len

\* C22: when a DEFUN or DEFMACRO body reads a symbol of kind macro, the
\* macro is entered in that step with the current parameter stack and
\* compile emits nothing for it; when it reads a symbol of kind function,
\* nothing is entered and a call of the function is emitted.
C22_MacroRunsAtCompileTime ==
  [][CompilesObject =>
       /\ MetEntry.symbol_type = "macro" => MacroInvokedNow
       /\ MetEntry.symbol_type = "function" => CallEmittedOnly]_vars

\* a macro is running under compile under a definition's body loop
C22_Witness ==
  /\ Len(ctl) >= 3
  /\ Top(ctl).k = "guest"
  /\ ctl[Len(ctl) - 1].k = "compile"
  /\ ctl[Len(ctl) - 2].k = "def" /\ ctl[Len(ctl) - 2].phase = "body"

\* C23: when the platform refuses to make the code buffer readable,
\* writable and executable, the run has ended with a diagnostic and status 1
\* before any byte of the input is read.
C23_RefusedMappingFatal ==
  prot # "rwx" =>
    /\ status = "exit1" /\ diag.kind # "none"
    /\ inrest = file

\* the place of the first byte of the file that read does not skip as
\* whitespace
DatumIndex == CHOOSE i \in DatumStarts : \A j \in DatumStarts : i <= j
DatumStart == file[DatumIndex]

\* read has classified a byte that carries MACRO
MacroByteRead ==
  /\ added # <<>>
  /\ DatumStarts # {}
  /\ "macro" \in PropsOf(DatumStart)

\* read returned what the handler h makes of the byte c and the stream
\* behind it; a number or symbol comes from no other handler than its reader
DispatchedTo(h, c, r) ==
  /\ \E tail \in Tails :
       r = WithFirst(ReadHandler(h, readtab, ToUpper(c),
                                 SubSeq(file, DatumIndex + 1, Len(file)), tail),
                     ToUpper(c))
  /\ (r.k = "obj" /\ r.obj.type \in {"number", "symbol"})
       => h \in {"read_number", "read_symbol"}

\* C24: under any readtable, a byte carrying MACRO at the start of a datum
\* is handed to its dispatch slot, or is fatal when the slot is null (or when
\* the byte also carries ERROR); it is never skipped and never read by the
\* integer or symbol reader on account of NUMBER_INIT or CONSTITUENT.  Every
\* MACRO byte of the default readtable has a handler.
C24_MacroByteDispatched ==
  /\ MacroByteRead =>
       LET c == DatumStart
           h == readtab.macro_dispatch[ToUpper(c)]
           r == added[1]
       IN IF "error" \in PropsOf(c)
            THEN r.k = "fatal" /\ r.kind = "illegal_character"
          ELSE IF h = "null"
            THEN r.k = "fatal" /\ r.kind = "macro_no_handler" /\ r.arg = ToUpper(c)
          ELSE DispatchedTo(h, c, r)
  /\ \A c \in Bytes :
       "macro" \in default_readtable.char_properties[c]
         => default_readtable.macro_dispatch[c] # "null"

\* a byte that is MACRO, NUMBER_INIT and CONSTITUENT went to the string reader
C24_Witness ==
  /\ MacroByteRead
  /\ PropsOf("X") = {"macro", "number_init", "constituent"}
  /\ readtab.macro_dispatch["X"] = "read_string"
  /\ added[1].k = "obj" /\ added[1].obj.type = "string"

\* compiled code is about to execute an instruction of kind op
AtGuestInstr(op) ==
  /\ status = "run"
  /\ Top(ctl).k = "guest"
  /\ Top(ctl).ip >= ProgramBase /\ Top(ctl).ip < ProgramEnd
  /\ Top(ctl).ip \in DOMAIN code
  /\ code[Top(ctl).ip].op = op

\* the function on top of the control stack was called by something other
\* than compile, which pushes an address of its own when its macro returns
CalledOutsideCompile == ctl[Len(ctl) - 1].k # "compile"

\* C25: prologue, epilogue and ret leave the parameter-stack pointer and the
\* parameter stack as they are, so that the caller of a compiled function
\* finds the pointer the last call or push of the body left; the integer
\* fragment lowers the pointer by exactly one slot and stores its literal
\* there.
C25_FragmentsKeepStackRegister ==
  [][/\ (AtGuestInstr("prologue") \/ AtGuestInstr("epilogue"))
         => (sp' = sp /\ mem' = mem)
     /\ (AtGuestInstr("ret") /\ CalledOutsideCompile)
         => (sp' = sp /\ mem' = mem)
     /\ AtGuestInstr("push")
         => /\ sp' = sp - PTRSIZE
            /\ Load(mem', sp') = code[Top(ctl).ip].arg
            /\ \A a \in DOMAIN mem : a # sp' => Load(mem', a) = Load(mem, a)]_vars

\* SQUARE was called at top level and left 36 for PRINTI
C25_Witness ==
  /\ file = Join(<<T_DEFUN, T_SQUARE, T_DUP, T_STAR, T_DONE, Lit(6), T_SQUARE, T_PRINTI>>)
  /\ Top(ctl).k = "main"
  /\ out = <<>>
  /\ status = "run"
  /\ StackTopValue(Cur) = 36

\* a is what is left of b after some of its bytes were read
IsSuffix(a, b) ==
  /\ Len(a) <= Len(b)
  /\ a = SubSeq(b, Len(b) - Len(a) + 1, Len(b))

\* the step reads on in the file that is open
ReadsOn == argv' = argv /\ IsSuffix(inrest', inrest)

\* the step finds the open file at its end at top level and opens the next
\* argument, with the table, the code buffer and the stack as they are
OpensNext ==
  /\ Top(ctl).k = "main" /\ Blank(inrest)
  /\ argv # <<>>
  /\ inrest' = Head(argv) /\ argv' = Tail(argv)
  /\ status' = "run"
  /\ symtab' = symtab
  /\ cursor' = cursor /\ code' = code
  /\ sp' = sp
  /\ \A a \in DOMAIN mem : a >= sp => Load(mem', a) = Load(mem, a)
  /\ out' = out

\* the run ends normally only behind the last file
EndsBehindLast == status = "exit0" => (argv = <<>> /\ inrest = <<>>)

\* what the two-file runs that print have printed is a prefix of their
\* files' output in argument order
PrintsInOrder ==
  /\ file = Join(<<Lit(1), T_PRINTI>>)
       => out \in {<<>>, Printed(1), Printed(1) \o Printed(2)}
  /\ file = Join(<<Lit(2), T_PRINTI>>)
       => out \in {<<>>, Printed(2), Printed(2) \o Printed(1)}

EndedAtName ==
  /\ file \in BadNameInputs
  /\ Finished
  /\ Top(ctl).k = "def" /\ Top(ctl).phase = "name"

\* C27: a definition form that reads an integer or a string as its name
\* ends the run with status 1 and the diagnostic for the name, with no
\* symbol added and the cursor where it was.
C27_BadNameFatal ==
  EndedAtName =>
    /\ status = "exit1"
    /\ diag.kind = "bad_def_name"
    /\ symtab = InitialSymtab
    /\ cursor = ProgramBase /\ code = <<>>

\* read has handed a byte that is CONSTITUENT and nothing else to read_symbol
SymbolRead ==
  /\ added # <<>>
  /\ DatumStarts # {}
  /\ PropsOf(DatumStart) = {"constituent"}

\* the place of the last byte of the run of CONSTITUENT bytes that starts
\* at the datum start
RunEnd ==
  LET ends == {j \in DatumIndex..Len(file) :
                 /\ \A i \in (DatumIndex + 1)..j : "constituent" \in PropsOf(file[i])
                 /\ (j < Len(file) => "constituent" \notin PropsOf(file[j + 1]))}
  IN CHOOSE j \in ends : TRUE

\* C28: the symbol reader yields a symbol whose name is the run of
\* CONSTITUENT bytes from the classifier byte on, folded to upper case, and
\* leaves the stream at the first byte that is not CONSTITUENT (or at its
\* end, without an error).
C28_SymbolIsFoldedRun ==
  SymbolRead =>
    /\ added[1].k = "obj" /\ added[1].obj.type = "symbol"
    /\ added[1].obj.repr =
         [i \in 1..(RunEnd - DatumIndex + 1) |-> ToUpper(file[DatumIndex + i - 1])]
    /\ inrest = SubSeq(file, RunEnd + 1, Len(file))

\* the object read in this step of a DEFUN or DEFMACRO body
CompiledObject == heap'[Len(heap')]

\* compile has returned in this step, having emitted a push or a call for an
\* Integer, a String, a value symbol or a function symbol
CompiledEmitting ==
  /\ InBodyLoop /\ Top(ctl).type # "value"
  /\ Len(heap') > Len(heap)
  /\ status' = "run"
  /\ \/ CompiledObject.type \in {"number", "string"}
     \/ MetEntry.symbol_type \in {"value", "function"}

\* the bytes the cursor moves for the object: 17 for a push, the length of
\* one of the three forms of call otherwise
EmittedLengths ==
  IF CompiledObject.type = "symbol" /\ MetEntry.symbol_type = "function"
    THEN {5, 7, 12} ELSE {17}

\* the macro on top of the control stack returns into compile in this step,
\* and compile returns to the body loop
MacroReturnsToCompile ==
  /\ status = "run" /\ Len(ctl) >= 3
  /\ Top(ctl).k = "guest" /\ ctl[Len(ctl) - 1].k = "compile"
  /\ status' = "run"
  /\ ctl' = SubSeq(ctl, 1, Len(ctl) - 2)

\* C29: compiling an Integer, a String, a value symbol or a function symbol
\* advances the cursor by 17 bytes (a push) or by 5, 7 or 12 bytes (a call)
\* and leaves the cursor's value from before the emission on the parameter
\* stack; compile of a macro leaves a null address there.
C29_CompileAdvancesCursor ==
  [][/\ CompiledEmitting =>
          /\ (cursor' - cursor) \in EmittedLengths
          /\ sp' \in DOMAIN mem' /\ mem'[sp'] = cursor
     /\ MacroReturnsToCompile =>
          /\ sp' \in DOMAIN mem' /\ mem'[sp'] = NULL]_vars

\* a definition's body has compiled a push and then a call that ends at the
\* cursor, and the address on top of the parameter stack is that of emitted
\* code
C29_Witness ==
  /\ InBodyLoop
  /\ \E a \in DOMAIN code : code[a].op = "call" /\ a + code[a].len = cursor
  /\ \E a \in DOMAIN code : code[a].op = "push"
  /\ sp \in DOMAIN mem /\ mem[sp] \in DOMAIN code

\* asm_patch_call(site, target) is applied in this step
PatchedNow(site, target) ==
  /\ Len(added') = Len(added) + 1
  /\ added'[Len(added')] =
       [name |-> "asm_patch_call", value |-> target, kind |-> site]

\* the bytes at site are the 64-bit absolute call of target
SiteCalls(bytes, site, target) ==
  \A i \in 1..12 : bytes[site + i - 1] = Abs64Bytes(target)[i]

\* the bytes at site have the form 48 b9 imm64 ff d1
Abs64Site(bytes, site) ==
  /\ bytes[site] = 72 /\ bytes[site + 1] = 185
  /\ bytes[site + 10] = 255 /\ bytes[site + 11] = 209

\* C30: asm_patch_call(site, target) on a call site in the 64-bit absolute
\* form makes the site the 64-bit absolute call of target; every byte
\* outside site+2 .. site+9 keeps its value and the cursor stays.
C30_PatchOnlyImmediate ==
  [][\A site \in PatchSites, target \in PatchTargets :
       (PatchedNow(site, target) /\ Abs64Site(mem, site))
         => /\ SiteCalls(mem', site, target)
            /\ \A a \in PatchBuffer \ ((site + 2)..(site + 9)) : mem'[a] = mem[a]
            /\ cursor' = cursor]_vars

\* a site emitted by asm_call(cur, NULL) into a buffer of non-zero bytes has
\* been patched twice and now calls a callee other than the first one
C30_Witness ==
  /\ Len(added) = 3
  /\ added[1].name = "asm_call" /\ added[1].value = NULL
  /\ added[2].value # added[3].value
  /\ SiteCalls(mem, added[1].kind, added[3].value)
  /\ mem[ProgramBase + PatchBufferLen - 1] = 204

\* C31: after any sequence of emitter operations no byte at or after the
\* cursor has been written: each still holds the 0xcc main filled it with.
C31_UnemittedBytesTrap ==
  status = "run" => \A a \in written : a < cursor

\* the top-level loop is between two evaluations, or has ended normally
AtTopLevel ==
  /\ status \in {"run", "exit0"}
  /\ Len(ctl) = 1 /\ Top(ctl).k = "main"

\* C32: between top-level evaluations the parameter-stack pointer is inside
\* the array stack_new allocated: not below its base and not above the
\* top stack_new computed.
C32_StackPointerInArray ==
  AtTopLevel => (sp >= StackBase /\ sp <= StackTop)

\* C33: in the body loop of DEFUN or DEFMACRO, reading and compiling an
\* object that is not a macro leaves the parameter-stack pointer where it
\* was before the object was read.
C33_BodyKeepsStackDepth ==
  [][CompiledEmitting => sp' = sp]_vars

\* a definition form is entered in this step
FormInvoked ==
  /\ status' = "run"
  /\ Len(ctl') = Len(ctl) + 1 /\ Top(ctl').k = "def"

\* the definition form on top of the control stack reads DONE in this step
\* and returns to its caller
FormReturns ==
  /\ InBodyLoop /\ LeavesBodyLoop
  /\ ctl' = PopFrame(ctl)

\* C34: a definition form that completes returns with the parameter-stack
\* pointer it was invoked with (the pointer its frame was entered with),
\* whatever its body pushed or popped.
C34_FormRestoresStack ==
  [][/\ FormInvoked => Top(ctl').entry = sp'
     /\ FormReturns => sp' = Top(ctl).entry]_vars

\* a DEFVAL whose body left two values has returned to the top level with
\* the one value pushed before it on the stack
C34_Witness ==
  /\ file = Join(<<Lit(5), T_DEFVAL, T_TEN, Lit(1), Lit(2), T_DONE, T_PRINTI>>)
  /\ AtTopLevel
  /\ symtab # InitialSymtab
  /\ sp = StackTop - PTRSIZE

\* C35: with G compiled while F was the function pushing 1, and F redefined
\* to push 2 afterwards, a run that ends normally has printed 1 for G (the
\* entry F had when G was compiled) and then 2 for F (the newest entry).
C35_CallsBoundAtCompileTime ==
  (file \in RebindInputs /\ status = "exit0")
    => out = Printed(1) \o Printed(2)

\* the bytes taken from the stream in this step
Consumed == SubSeq(inrest, 1, Len(inrest) - Len(inrest'))

\* s without the blanks in front of it
Unblanked(s) ==
  LET starts == {i \in 1..Len(s) : ~Blank(<<s[i]>>)} IN
  IF starts = {} THEN <<>>
  ELSE SubSeq(s, CHOOSE i \in starts : \A j \in starts : i <= j, Len(s))

\* the read-objects allocated in this step
NewReadObjects ==
  SelectSeq(SubSeq(heap', Len(heap) + 1, Len(heap')),
            LAMBDA o : o.type \in {"symbol", "number", "string"})

\* the bytes b, or b and the bytes that lie behind an unterminated vector
StartsWith(data, b) ==
  /\ Len(data) >= Len(b)
  /\ SubSeq(data, 1, Len(b)) = b
  /\ \E tail \in Tails : Len(data) = Len(b) + Len(tail)

\* the text is the spelling of the read-object o, whole, and the stream stands
\* behind its last byte: at a byte that cannot continue the datum, or at the
\* end
SpelledBy(text, o) ==
  /\ text # <<>>
  /\ IF o.type = "symbol"
       THEN /\ StartsWith(o.repr, [i \in 1..Len(text) |-> ToUpper(text[i])])
            /\ \A i \in 2..Len(text) :
                 "constituent" \in default_readtable.char_properties[ToUpper(text[i])]
            /\ inrest' # <<>> =>
                 "constituent" \notin default_readtable.char_properties[Head(inrest')]
     ELSE IF o.type = "number"
       THEN /\ \A i \in 2..Len(text) : IsDigit(text[i])
            /\ IsDigit(text[1]) => Lit(o.value) = text
            /\ inrest' # <<>> =>
                 "number" \notin default_readtable.char_properties[Head(inrest')]
     ELSE /\ Len(text) >= 2 /\ text[1] = "\"" /\ text[Len(text)] = "\""
          /\ \A i \in 2..(Len(text) - 1) : text[i] # "\""
          /\ IF o.contents = NULL THEN Len(text) = 2
             ELSE StartsWith(heap'[Len(heap') - 1].data,
                             SubSeq(text, 2, Len(text) - 1))

\* the step takes from the front of the stream either blanks up to its end
\* or blanks and the whole text of the one read-object it allocates
ConsumesOneDatum ==
  /\ IsSuffix(inrest', inrest)
  /\ (status' \in {"run", "exit0"} /\ inrest' # inrest) =>
       \/ Blank(Consumed) /\ inrest' = <<>> /\ NewReadObjects = <<>>
       \/ /\ Len(NewReadObjects) = 1
          /\ SpelledBy(Unblanked(Consumed), NewReadObjects[1])

\* C36: every step of the top-level loop or of a definition form takes
\* exactly one datum from the front of the one stream, beginning where the
\* step before stopped: no byte that is not blank is skipped, the byte that
\* ended a symbol or an integer is the first one the next read sees, and
\* the top-level loop goes on behind DONE.
C36_DatumsConsumedInOrder ==
  [][ConsumesOneDatum]_vars

\* DEFUN has read its name up to the quote that follows it, then the string
\* and DONE, and the top-level loop is about to read the datums behind DONE
C36_Witness ==
  /\ file \in AdjacentInputs
  /\ AtTopLevel /\ status = "run"
  /\ inrest = <<" ">> \o T_F \o <<" ">> \o T_PRINTS

\* the upper-case folding of the bytes of s
Folded(s) == [i \in 1..Len(s) |-> ToUpper(s[i])]

\* the symbol read in this step is looked up, and compared with DONE, as
\* the bytes accumulated for it are
LooksUpAsAccumulated ==
  \A i \in 1..Len(NewReadObjects) :
    NewReadObjects[i].type = "symbol" =>
      LET accumulated == Folded(Unblanked(Consumed))
          name == NewReadObjects[i].repr
      IN /\ symtab_lookup_symbol(symtab, name)
              = symtab_lookup_symbol(symtab, accumulated)
         /\ (name = T_DONE) <=> (accumulated = T_DONE)

\* C37: a symbol just read matches a symbol-table entry, and DONE, exactly
\* when the bytes accumulated for it equal that name, whatever lies in
\* memory behind the accumulation vector.
C37_NameIsTerminated ==
  [][LooksUpAsAccumulated]_vars

\* read has returned to its caller, or the run has ended in error()
ReadEnded ==
  \/ status # "run"
  \/ Top(ctl).k = "main" /\ added # <<>>

\* the reader on top of ctl stays in its loop, or read goes on in a handler
StaysInReader ==
  /\ status' = "run" /\ Top(ctl').k \in Readers

\* what read returned is what the reader of the whole model computes for
\* the stream in one go
ReturnedAsRead ==
  (status = "run" /\ Top(ctl).k = "main" /\ added # <<>>) =>
    \E tail \in Tails :
      LET r == read(readtab, file, tail) IN
      /\ r.k = added[1].k /\ r.rest = inrest
      /\ r.k = "obj" => r.obj = added[1].obj

\* C38: on every finite stream one call of read comes to an end: it
\* returns a read-object or the end-of-file marker, or the run ends in a
\* fatal error; every iteration that stays in a reader's loop has taken one
\* byte from the stream.
C38_ReadTerminates ==
  /\ <>ReadEnded
  /\ [][StaysInReader => Len(inrest') = Len(inrest) - 1]_vars
  /\ []ReturnedAsRead

\* read has returned a symbol after skipping a blank and looping in
\* read_symbol, with the byte that ended the symbol back in the stream
C38_Witness ==
  /\ file = <<" ", "a", ")">>
  /\ ReadEnded /\ status = "run"
  /\ added[1].k = "obj" /\ added[1].obj.type = "symbol"
  /\ inrest = <<")">>

\* C39: whatever address calloc returned for the block of
\* PROGRAM_AREA_SIZE + PAGE_SIZE bytes, the code buffer starts at a multiple
\* of the page size and its PROGRAM_AREA_SIZE bytes lie inside the block.
C39_BufferAlignedInBlock ==
  added # <<>> =>
    /\ cursor % PAGE_SIZE = 0
    /\ cursor >= added[1].value
    /\ cursor + PROGRAM_AREA_SIZE <= added[1].value + added[1].kind

\* calloc returned a page-aligned block: the buffer starts one page into
\* it and ends with it
C39_Witness ==
  /\ added # <<>>
  /\ added[1].value % PAGE_SIZE = 0
  /\ cursor = added[1].value + PAGE_SIZE
  /\ cursor + PROGRAM_AREA_SIZE = added[1].value + added[1].kind

============================================================================
